---- MODULE Spec2Model ----
(***************************************************************************)
(* Model of the rerun sweep of scheduler-tools (schedtools.jobs.rerun_jobs) *)
(* together with the job/queue containers of schedtools.core, the PBS       *)
(* adapter of schedtools.managers and the client-side track_new_jobs.       *)
(*                                                                          *)
(* A job is the PBSJob mapping of core.py.  Only the keys the sweep reads   *)
(* are kept; a key that may be missing from the mapping is a sequence of    *)
(* length 0 (missing) or 1 (present):                                       *)
(*   id        "id"                                                         *)
(*   job_state "job_state" (Q, R or U)                                      *)
(*   used      "resources_used.walltime", hours                             *)
(*   wall      "Resource_List.walltime", hours                              *)
(*   stime     "stime", hours                                               *)
(*   prio      "priority"                                                   *)
(*   qstat     TRUE iff the mapping carries the keys qstat prints           *)
(*             (Job_Name, Error_Path, ...); FALSE for PBSJob.unsubmitted    *)
(* A Queue (core.py) is the insertion-ordered dict id -> job, written as a  *)
(* sequence of jobs with pairwise different ids.  jobs.py imports Queue and *)
(* PBSJob from schedtools.core, and test_get_jobs asserts that the live     *)
(* queue holds PBSJob items, so the live queue is a core Queue as well.     *)
(***************************************************************************)
EXTENDS Integers, Sequences, FiniteSets, TLC

VARIABLES
    mirror,             \* remote file $HOME/.rerun-tracked.json (list of jobs)
    cache,              \* local fallback cache file: <<>> absent, <<payload>> present
    continue_on_rerun,  \* the driver's -c flag
    minted,             \* uuids already given out by PBSJob.unsubmitted
    pc,                 \* position of the running rerun_jobs invocation
    queued,             \* rerun_jobs local: the live queue
    tracked,            \* rerun_jobs local: the tracked Queue
    to_rerun,           \* rerun_jobs local: candidates not yet visited
    qrerun_allowed,     \* attribute of the PBS manager built by this invocation
    seen,               \* what the invocation read, classified and wrote
    log,                \* commands issued by the current/last invocation, in order
    result,             \* how the last invocation ended
    sweeps              \* number of invocations started

\* one classification of rerun_jobs (lines 156-159), taken on its own
VARIABLES
    cl_in,              \* its inputs: tracked view, live queue, tails, threshold
    cl_out              \* <<>> before, <<to_rerun>> after

\* one start of the driver (interfaces/rerun.py)
VARIABLES
    driver              \* its arguments, the threshold it settles on, its position

\* schedtools.schemas: match_jobs and Queue
VARIABLES
    matched,            \* one call of match_jobs: its arguments and its result
    sq,                 \* a Queue: its jobs list, and whether Queue.parse built it
    merged              \* one merge of sq with a parsed queue, both ways

\* schedtools.sql and schedtools.tracking: the jobs table behind one connection
VARIABLES
    db,                 \* the committed rows of the jobs table, by id
    txn,                \* the open transaction of the connection: <<>> or <<rows>>
    tq,                 \* the JobTrackingQueue open on the connection: <<>> or <<jobs>>
    call                \* the last call made on the connection

\* schedtools.sql: the jobs table with its state and comment columns
VARIABLES
    table,              \* the committed rows of the jobs table, in insertion order
    held,               \* the open transaction of the connection: <<>> or <<rows>>
    upd                 \* the last statement run on the table and its outcome

\* schedtools.interfaces.set_missing_alerts: one pass
VARIABLES
    ma                  \* the tracked rows and the live queue of a pass, and the rows after it

\* schedtools.interfaces.rerun: the periodic driver
VARIABLES
    loop                \* the driver process: its mode, where it is, and the outcomes of its sweeps

\* one supervisor's PBS adapters (managers.py): the adapter of the sweep under way and its rerun_job calls
VARIABLES
    pbs                 \* <<>> at rest, else one record: the adapter's flag and the last rerun_job call

\* one run of delete_queued_duplicates (jobs.py)
VARIABLES
    dd                  \* <<>> at rest, else one record: the listed jobs, count_running, the position in the function and the qdel commands issued

\* a core.Queue that is filled and iterated (core.py)
VARIABLES
    it                  \* <<>> at rest, else one record: the Queue's jobs in insertion order and what the last iteration yielded

\* sweeps over a mirror that track_new_jobs has written to, on a scheduler that accepts every command (jobs.py)
VARIABLES
    ut                  \* <<>> at rest, else one record: the mirror file and what the last sweep saw and did

\* the driver of rerun (interfaces/rerun.py) and the rerun_jobs invocations it has in flight
VARIABLES
    sch                 \* <<>> at rest, else one record: the driver mode, the invocations in flight and the events so far

\* a ShellHandler on one interactive channel (shell_handler.py)
VARIABLES
    sh                  \* <<>> at rest, else one record: the lines of the channel not yet read and the results of the execute calls

\* one call of a function wrapped by retry_on (utils.py)
VARIABLES
    rt                  \* <<>> at rest, else one record: max_tries, DISABLE_RETRY, the outcomes of the invocations so far and how the call ended

\* the local fallback cache file and the supervisor that writes it (jobs.py)
VARIABLES
    cf                  \* <<>> at rest, else one record: the file, the write under way and what the last get_tracked_cache met

\* schedtools.managers.get_workload_manager: the capability probe
VARIABLES
    pb                  \* the calls of get_workload_manager on one channel

\* schedtools.jobs.rerun_jobs over several sweeps, with the reruns remembered
VARIABLES
    ao                  \* the sweeps, the two files and the reruns so far

\* track_new_jobs of a client and rerun_jobs of the supervisor on one mirror file
VARIABLES
    rw                  \* the mirror, the cache and the two callers

sweep_vars == <<mirror, cache, continue_on_rerun, minted, pc, queued, tracked,
                to_rerun, qrerun_allowed, seen, log, result, sweeps>>

classify_vars == <<cl_in, cl_out>>

driver_vars == <<driver>>

schema_vars == <<matched, sq, merged>>

store_vars == <<db, txn, tq, call>>

state_vars == <<table, held, upd>>

alerts_vars == <<ma>>

loop_vars == <<loop>>

adapter_vars == <<pbs>>

dedup_vars == <<dd>>

iter_vars == <<it>>

unsub_vars == <<ut>>

ticks_vars == <<sch>>

shell_vars == <<sh>>

retry_vars == <<rt>>

cachefile_vars == <<cf>>

probe_vars == <<pb>>

once_vars == <<ao>>

race_vars == <<rw>>

vars == <<sweep_vars, classify_vars, driver_vars, schema_vars, store_vars, state_vars, alerts_vars, loop_vars, adapter_vars, dedup_vars, iter_vars, unsub_vars, ticks_vars, shell_vars, retry_vars, cachefile_vars, probe_vars, once_vars, race_vars>>

\* what an action of one component leaves alone
not_sweep == <<classify_vars, driver_vars, schema_vars, store_vars, state_vars, alerts_vars, loop_vars, adapter_vars, dedup_vars, iter_vars, unsub_vars, ticks_vars, shell_vars, retry_vars, cachefile_vars, probe_vars, once_vars, race_vars>>

not_classify == <<sweep_vars, driver_vars, schema_vars, store_vars, state_vars, alerts_vars, loop_vars, adapter_vars, dedup_vars, iter_vars, unsub_vars, ticks_vars, shell_vars, retry_vars, cachefile_vars, probe_vars, once_vars, race_vars>>

not_driver == <<sweep_vars, classify_vars, schema_vars, store_vars, state_vars, alerts_vars, loop_vars, adapter_vars, dedup_vars, iter_vars, unsub_vars, ticks_vars, shell_vars, retry_vars, cachefile_vars, probe_vars, once_vars, race_vars>>

not_schema == <<sweep_vars, classify_vars, driver_vars, store_vars, state_vars, alerts_vars, loop_vars, adapter_vars, dedup_vars, iter_vars, unsub_vars, ticks_vars, shell_vars, retry_vars, cachefile_vars, probe_vars, once_vars, race_vars>>

not_store == <<sweep_vars, classify_vars, driver_vars, schema_vars, state_vars, alerts_vars, loop_vars, adapter_vars, dedup_vars, iter_vars, unsub_vars, ticks_vars, shell_vars, retry_vars, cachefile_vars, probe_vars, once_vars, race_vars>>

not_state == <<sweep_vars, classify_vars, driver_vars, schema_vars, store_vars, alerts_vars, loop_vars, adapter_vars, dedup_vars, iter_vars, unsub_vars, ticks_vars, shell_vars, retry_vars, cachefile_vars, probe_vars, once_vars, race_vars>>

not_alerts == <<sweep_vars, classify_vars, driver_vars, schema_vars, store_vars, state_vars, loop_vars, adapter_vars, dedup_vars, iter_vars, unsub_vars, ticks_vars, shell_vars, retry_vars, cachefile_vars, probe_vars, once_vars, race_vars>>

not_loop == <<sweep_vars, classify_vars, driver_vars, schema_vars, store_vars, state_vars, alerts_vars, adapter_vars, dedup_vars, iter_vars, unsub_vars, ticks_vars, shell_vars, retry_vars, cachefile_vars, probe_vars, once_vars, race_vars>>

not_adapter == <<sweep_vars, classify_vars, driver_vars, schema_vars, store_vars, state_vars, alerts_vars, loop_vars, dedup_vars, iter_vars, unsub_vars, ticks_vars, shell_vars, retry_vars, cachefile_vars, probe_vars, once_vars, race_vars>>

not_dedup == <<sweep_vars, classify_vars, driver_vars, schema_vars, store_vars, state_vars, alerts_vars, loop_vars, adapter_vars, iter_vars, unsub_vars, ticks_vars, shell_vars, retry_vars, cachefile_vars, probe_vars, once_vars, race_vars>>

not_iter == <<sweep_vars, classify_vars, driver_vars, schema_vars, store_vars, state_vars, alerts_vars, loop_vars, adapter_vars, dedup_vars, unsub_vars, ticks_vars, shell_vars, retry_vars, cachefile_vars, probe_vars, once_vars, race_vars>>

not_unsub == <<sweep_vars, classify_vars, driver_vars, schema_vars, store_vars, state_vars, alerts_vars, loop_vars, adapter_vars, dedup_vars, iter_vars, ticks_vars, shell_vars, retry_vars, cachefile_vars, probe_vars, once_vars, race_vars>>

not_ticks == <<sweep_vars, classify_vars, driver_vars, schema_vars, store_vars, state_vars, alerts_vars, loop_vars, adapter_vars, dedup_vars, iter_vars, unsub_vars, shell_vars, retry_vars, cachefile_vars, probe_vars, once_vars, race_vars>>

not_shell == <<sweep_vars, classify_vars, driver_vars, schema_vars, store_vars, state_vars, alerts_vars, loop_vars, adapter_vars, dedup_vars, iter_vars, unsub_vars, ticks_vars, retry_vars, cachefile_vars, probe_vars, once_vars, race_vars>>

not_retry == <<sweep_vars, classify_vars, driver_vars, schema_vars, store_vars, state_vars, alerts_vars, loop_vars, adapter_vars, dedup_vars, iter_vars, unsub_vars, ticks_vars, shell_vars, cachefile_vars, probe_vars, once_vars, race_vars>>

not_cachefile == <<sweep_vars, classify_vars, driver_vars, schema_vars, store_vars, state_vars, alerts_vars, loop_vars, adapter_vars, dedup_vars, iter_vars, unsub_vars, ticks_vars, shell_vars, retry_vars, probe_vars, once_vars, race_vars>>

not_probe == <<sweep_vars, classify_vars, driver_vars, schema_vars, store_vars, state_vars, alerts_vars, loop_vars, adapter_vars, dedup_vars, iter_vars, unsub_vars, ticks_vars, shell_vars, retry_vars, cachefile_vars, once_vars, race_vars>>

not_once == <<sweep_vars, classify_vars, driver_vars, schema_vars, store_vars, state_vars, alerts_vars, loop_vars, adapter_vars, dedup_vars, iter_vars, unsub_vars, ticks_vars, shell_vars, retry_vars, cachefile_vars, probe_vars, race_vars>>

not_race == <<sweep_vars, classify_vars, driver_vars, schema_vars, store_vars, state_vars, alerts_vars, loop_vars, adapter_vars, dedup_vars, iter_vars, unsub_vars, ticks_vars, shell_vars, retry_vars, cachefile_vars, probe_vars, once_vars>>

----------------------------------------------------------------------------
(* Bounds of the model *)

MaxSweeps == 2

LiveIds == {"a", "b"}
EndedIds == {"c"}
UnsubIds == {"u"}
WalltimeVals == {10}
UsedVals == {8, 9}
StartTimes == {0}

(* Program constants *)
threshold == 90
DEFAULT_PRIORITY == 0
UNSUBMITTED_PRIORITY == -1

----------------------------------------------------------------------------
(* schedtools.core.PBSJob *)

QueuedJob(i, w) ==
    [id |-> i, job_state |-> "Q", used |-> <<>>, wall |-> <<w>>,
     stime |-> <<>>, prio |-> <<>>, qstat |-> TRUE]

RunningJob(i, u, w, s) ==
    [id |-> i, job_state |-> "R", used |-> <<u>>, wall |-> <<w>>,
     stime |-> <<s>>, prio |-> <<>>, qstat |-> TRUE]

unsubmitted(i) ==
    [id |-> i, job_state |-> "U", used |-> <<>>, wall |-> <<>>,
     stime |-> <<>>, prio |-> <<UNSUBMITTED_PRIORITY>>, qstat |-> FALSE]

status(job) ==
    CASE job.job_state = "Q" -> "queued"
      [] job.job_state = "R" -> "running"
      [] job.job_state = "U" -> "unsubmitted"

priority(job) ==
    IF Len(job.prio) > 0 THEN job.prio[1]
    ELSE IF status(job) = "unsubmitted" THEN UNSUBMITTED_PRIORITY
    ELSE DEFAULT_PRIORITY

\* 100 * used / wall is a float in the source; it is compared with the
\* threshold only, so the comparison is kept exact by cross-multiplying.
percent_completion_ge(job, t) ==
    IF Len(job.used) > 0 THEN 100 * job.used[1] >= t * job.wall[1]
    ELSE 0 >= t

is_running(job) == status(job) = "running"

has_elapsed(job, clock) ==
    IF Len(job.stime) = 0 THEN FALSE
    ELSE job.stime[1] + job.wall[1] < clock

----------------------------------------------------------------------------
(* schedtools.core.Queue *)

Ids(q) == {q[i].id : i \in 1..Len(q)}

QueueContains(q, id) == id \in Ids(q)

\* dict[id] = job: an existing key keeps its position, a new key is appended
QueuePut(q, job) ==
    IF \E i \in 1..Len(q) : q[i].id = job.id
    THEN [i \in 1..Len(q) |-> IF q[i].id = job.id THEN job ELSE q[i]]
    ELSE Append(q, job)

RECURSIVE QueueUpdate(_, _)
QueueUpdate(q, other) ==
    IF other = <<>> THEN q
    ELSE QueueUpdate(QueuePut(q, Head(other)), Tail(other))

QueueNew(jobs) == QueueUpdate(<<>>, jobs)

QueueExtend(q, jobs) == QueueUpdate(q, QueueNew(jobs))

QueuePop(q, id) == SelectSeq(q, LAMBDA j : j.id # id)

Priorities(q) == {priority(q[i]) : i \in 1..Len(q)}

MaxPriority(q) == CHOOSE p \in Priorities(q) : \A r \in Priorities(q) : r <= p

\* iteration in insertion order, the order of dict.values()
QueueIterInsertion(q) == q

\* sorted(values, key=priority, reverse=True): stable, highest priority first
RECURSIVE QueueIter(_)
QueueIter(q) ==
    IF q = <<>> THEN <<>>
    ELSE LET p == MaxPriority(q)
         IN  SelectSeq(q, LAMBDA j : priority(j) = p)
             \o QueueIter(SelectSeq(q, LAMBDA j : priority(j) # p))

----------------------------------------------------------------------------
(* schedtools.managers: the PBS adapter *)

ProbeRcs == {0, 127, 1}
QrerunRcs == {0, 38, 159, 1}
QsubRcs == {0, 38, 1}
QdelRcs == {0, 1}
WriteRcs == {0, 1}
Tails == {"none", "mem", "walltime", "fail"}

\* mutant: any non-zero exit status counts as "not installed"
is_valid_lenient(rc) ==
    IF rc = 0 THEN "valid" ELSE "invalid"

\* WorkloadManager.is_valid on the exit status of list_jobs_cmd
is_valid(rc) ==
    IF rc = 0 THEN "valid" ELSE IF rc = 127 THEN "invalid" ELSE "raise"

\* get_workload_manager: PBS is probed first, SLURM second
get_workload_manager(pbsRc, slurmRc) ==
    IF is_valid(pbsRc) = "raise" THEN "raise"
    ELSE IF is_valid(pbsRc) = "valid" THEN "PBS"
    ELSE IF is_valid(slurmRc) = "raise" THEN "raise"
    ELSE IF is_valid(slurmRc) = "valid" THEN "SLURM"
    ELSE "raise"

\* manager.get_jobs(): SLURM.get_jobs_from_handler raises NotImplementedError,
\* PBS raises on a non-zero exit of qstat (or on undecodable output)
get_jobs(manager, qstatOk) ==
    IF manager = "PBS" /\ qstatOk THEN "ok" ELSE "raise"

\* PBS.was_killed_reason on the outcome of `tail <error_path>`:
\* "fail" is a non-zero exit, otherwise the kill reason found in the tail
was_killed_reason(tail, reason) ==
    IF tail = "fail" THEN FALSE ELSE tail = reason

was_killed(tail) ==
    was_killed_reason(tail, "walltime") \/ was_killed_reason(tail, "mem")

\* PBS.rerun_job on the exit statuses of qrerun and qsub; nosuch says whether
\* qsub's stderr holds "script file:: No such".  The messages of the failure
\* paths and the final log line read job.name, a KeyError for a job without
\* the qstat keys.
rerun_qsub(job, allowed, qs, nosuch, issued) ==
    LET cmds == Append(issued, [cmd |-> "qsub", rc |-> qs])
    IN  IF ~job.qstat THEN [res |-> "keyerror", allowed |-> allowed, cmds |-> cmds]
        ELSE IF qs # 0 THEN
            IF nosuch THEN [res |-> "missing", allowed |-> allowed, cmds |-> cmds]
            ELSE IF qs = 38 THEN [res |-> "full", allowed |-> allowed, cmds |-> cmds]
            ELSE [res |-> "error", allowed |-> allowed, cmds |-> cmds]
        ELSE [res |-> "ok", allowed |-> allowed, cmds |-> cmds]

rerun_job(job, allowed, qr, qs, nosuch) ==
    IF allowed THEN
        LET cmds == <<[cmd |-> "qrerun", rc |-> qr]>>
        IN  IF qr # 0 THEN
                IF qr = 159 THEN rerun_qsub(job, FALSE, qs, nosuch, cmds)
                ELSE IF qr = 38 THEN
                    IF ~job.qstat
                    THEN [res |-> "keyerror", allowed |-> allowed, cmds |-> cmds]
                    ELSE [res |-> "full", allowed |-> allowed, cmds |-> cmds]
                ELSE rerun_qsub(job, allowed, qs, nosuch, cmds)
            ELSE [res |-> "ok", allowed |-> allowed, cmds |-> cmds]
    ELSE rerun_qsub(job, allowed, qs, nosuch, <<>>)

\* WorkloadManager.delete_job on the exit status of qdel
delete_job(rc) == IF rc # 0 THEN "raise" ELSE "ok"

----------------------------------------------------------------------------
(* schedtools.jobs *)

\* get_tracked_from_cluster on the outcome of `cat $HOME/.rerun-tracked.json`:
\* a non-zero exit or empty output gives an empty Queue
get_tracked_from_cluster(rd, file) ==
    IF rd = "empty" THEN QueueNew(<<>>) ELSE QueueNew(file)

\* get_tracked_cache
get_tracked_cache(file) ==
    IF Len(file) > 0 THEN QueueNew(file[1]) ELSE QueueNew(<<>>)

\* json.dumps([job for job in tracked]): the jobs in iteration order
tracked_json(q) == QueueIter(q)

\* mutant: the fallback cache is not merged
TrackedViewNoCache(read, cached) == read

\* rerun_jobs, lines 153-155: the tracked view before classification
TrackedView(read, cached) == QueueUpdate(read, cached)

\* mutant: the threshold is exclusive
CandidatesStrict(view, live, tails, t) ==
    QueueExtend(
        QueueNew(SelectSeq(QueueIter(view),
                           LAMBDA j : ~QueueContains(live, j.id) /\ was_killed(tails[j.id]))),
        SelectSeq(QueueIter(live),
                  LAMBDA j : Len(j.used) > 0 /\ 100 * j.used[1] > t * j.wall[1]))

\* mutant: the live candidates come first
CandidatesLiveFirst(view, live, tails, t) ==
    QueueExtend(
        QueueNew(SelectSeq(QueueIter(live), LAMBDA j : percent_completion_ge(j, t))),
        SelectSeq(QueueIter(view),
                  LAMBDA j : ~QueueContains(live, j.id) /\ was_killed(tails[j.id])))

\* rerun_jobs, lines 156-159: the rerun candidates
Candidates(view, live, tails, t) ==
    QueueExtend(
        QueueNew(SelectSeq(QueueIter(view),
                           LAMBDA j : ~QueueContains(live, j.id) /\ was_killed(tails[j.id]))),
        SelectSeq(QueueIter(live), LAMBDA j : percent_completion_ge(j, t)))

\* the jobs whose error file the classification tails (job.error_path is read)
Tailed(view, live) == {j \in Ids(view) : ~QueueContains(live, j)}

\* job.error_path raises KeyError for a job without the qstat keys
TailRaises(view, live) ==
    \E i \in 1..Len(view) : ~QueueContains(live, view[i].id) /\ ~view[i].qstat

\* rerun_jobs, line 162
UpdateTracked(view, live) == QueueUpdate(view, live)

\* mutant: a rerun job is never untracked
AfterRerunKeep(q, job, res) == q

\* rerun_jobs, lines 170-172: the tracked Queue after rerun_job(job) ended res
AfterRerun(q, job, res) == IF res = "ok" THEN QueuePop(q, job.id) ELSE q

\* mutant: the running duplicate is deleted whatever continue_on_rerun says
DeleteWantedAlways(job, live, cont) == QueueContains(live, job.id)

\* rerun_jobs, line 173
DeleteWanted(job, live, cont) == QueueContains(live, job.id) /\ ~cont

\* mutant: QueueFullError handled like the other submission errors
OnSubmissionErrorNoBreak(res) ==
    IF res \in {"full", "missing", "error"} THEN "continue" ELSE "raise"

\* mutant: every JobSubmissionError ends the loop
OnSubmissionErrorBreak(res) ==
    IF res \in {"full", "missing", "error"} THEN "break" ELSE "raise"

\* rerun_jobs, lines 175-179: what the loop does after rerun_job raised res
OnSubmissionError(res) ==
    IF res = "full" THEN "break"
    ELSE IF res \in {"missing", "error"} THEN "continue"
    ELSE "raise"

\* rerun_jobs, lines 174 and 200-202: JobDeletionError is no JobSubmissionError
OnDeletionError == "raise"

\* mutant: the cache is created but the payload is not written to it
CacheAfterWriteEmpty(file, payload, rc) == IF rc # 0 THEN << <<>> >> ELSE <<>>

\* rerun_jobs, lines 186-199: the cache file after the mirror write ended rc
CacheAfterWrite(file, payload, rc) == IF rc # 0 THEN <<payload>> ELSE <<>>

\* the mirror file after `echo ... > $HOME/.rerun-tracked.json` ended rc
MirrorAfterWrite(file, payload, rc) == IF rc # 0 THEN file ELSE payload

----------------------------------------------------------------------------
(* The scheduler's answers *)

\* the jobs qstat may show: running jobs below and at the threshold
LiveJobs ==
    {RunningJob(i, u, w, s) :
       i \in LiveIds, u \in UsedVals, w \in WalltimeVals, s \in StartTimes}

IdOrder == <<"a", "b">>

Before(x, y) ==
    \E m, n \in 1..Len(IdOrder) : m < n /\ IdOrder[m] = x /\ IdOrder[n] = y

\* what qstat may list: any of the jobs, one per id, in ascending id order
LiveQueues ==
    UNION {{q \in [1..n -> LiveJobs] :
              \A a, b \in 1..n : a < b => Before(q[a].id, q[b].id)} :
           n \in 0..Cardinality(LiveIds)}

\* exit statuses of qrerun met by the sweeps of Spec (159 flips qrerun_allowed
\* and leads to the same qsub outcomes as 1)
SweepQrerunRcs == QrerunRcs \ {159}

\* the mirror file the first sweep may meet: absent, or written by an earlier
\* run that tracked a job which has left the live queue since
FirstMirrors ==
    {<<>>} \cup {<<RunningJob(i, u, w, s)>> :
                   i \in EndedIds, u \in {8}, w \in WalltimeVals, s \in StartTimes}

NothingSeen == [read |-> <<>>, cached |-> <<>>, view |-> <<>>, cands |-> <<>>, payload |-> <<>>]

Entry(op, id, res) == [op |-> op, id |-> id, res |-> res]

----------------------------------------------------------------------------
(* State machine *)

\* the other components at rest
NoClassification == [view |-> <<>>, live |-> <<>>, tails |-> <<>>, t |-> threshold]

ClassifyIdle == cl_in = NoClassification /\ cl_out = <<>>

DriverIdle ==
    driver = [t |-> 0, i |-> 0, service |-> FALSE, threshold |-> <<>>, pc |-> "off"]

NoQueue == [jobs |-> <<>>, parsed |-> FALSE]

SchemaIdle == matched = <<>> /\ sq = NoQueue /\ merged = <<>>

StoreIds == {"j1", "j2"}

\* the table after ensure_table on a new database: no row
NoRows == [id \in StoreIds |-> <<>>]

\* a call on the connection: what was called, with which on_conflict, jobs
\* and id, whether it raised, whether it repeats the call before it, whether
\* it left the committed rows as they were, and whether its commit made
\* rows durable that a call that raised had left in the transaction
NoCall ==
    [op |-> "none", mode |-> "none", jobs |-> <<>>, id |-> "none",
     raised |-> FALSE, again |-> FALSE, kept |-> TRUE, flushed |-> FALSE]

StoreIdle == db = NoRows /\ txn = <<>> /\ tq = <<>> /\ call = NoCall

\* no statement yet
NoUpdate ==
    [op |-> "none", on_fail |-> "none", failed |-> FALSE, outcome |-> "none",
     legal |-> TRUE, left_failed |-> FALSE, same |-> TRUE, framed |-> TRUE]

StateIdle == table = <<>> /\ held = <<>> /\ upd = NoUpdate

AlertsIdle == ma = <<>>

LoopIdle == loop = <<>>

AdapterIdle == pbs = <<>>

DedupIdle == dd = <<>>

IterIdle == it = <<>>

UnsubIdle == ut = <<>>

TicksIdle == sch = <<>>

ShellIdle == sh = <<>>

RetryIdle == rt = <<>>

CachefileIdle == cf = <<>>

ProbeIdle == pb = <<>>

OnceIdle == ao = <<>>

RaceIdle == rw = <<>>

Init ==
    /\ mirror \in FirstMirrors
    /\ cache = <<>>
    /\ continue_on_rerun \in BOOLEAN
    /\ minted = {}
    /\ pc = "idle"
    /\ queued = <<>>
    /\ tracked = <<>>
    /\ to_rerun = <<>>
    /\ qrerun_allowed = TRUE
    /\ seen = NothingSeen
    /\ log = <<>>
    /\ result = "none"
    /\ sweeps = 0
    /\ ClassifyIdle
    /\ DriverIdle
    /\ SchemaIdle
    /\ StoreIdle
    /\ StateIdle
    /\ AlertsIdle
    /\ LoopIdle
    /\ AdapterIdle
    /\ DedupIdle
    /\ IterIdle
    /\ UnsubIdle
    /\ TicksIdle
    /\ ShellIdle
    /\ RetryIdle
    /\ CachefileIdle
    /\ ProbeIdle
    /\ OnceIdle
    /\ RaceIdle

\* mutant: a failure to fetch the live queue is swallowed
AcquirePcSwallow(got) == "classify"

\* rerun_jobs, lines 143-151 and 200-202: build the manager, fetch the live queue
AcquirePc(got) == IF got = "ok" THEN "classify" ELSE "idle"

SweepStart ==
    /\ pc = "idle"
    /\ sweeps < MaxSweeps
    /\ \E pbsRc \in ProbeRcs, slurmRc \in ProbeRcs, qstatOk \in BOOLEAN, live \in LiveQueues :
         LET manager == get_workload_manager(pbsRc, slurmRc)
             got == IF manager = "raise" THEN "raise" ELSE get_jobs(manager, qstatOk)
         IN  /\ pc' = AcquirePc(got)
             /\ queued' = IF got = "ok" THEN live ELSE <<>>
             /\ result' = IF got = "ok" THEN "running" ELSE "raised:acquire"
    /\ sweeps' = sweeps + 1
    /\ log' = <<>>
    /\ seen' = NothingSeen
    /\ tracked' = <<>>
    /\ to_rerun' = <<>>
    /\ qrerun_allowed' = TRUE
    /\ UNCHANGED <<mirror, cache, continue_on_rerun, minted>>
    /\ UNCHANGED not_sweep

\* rerun_jobs, lines 153-166
Classify ==
    /\ pc = "classify"
    /\ \E rd \in {"ok", "empty", "corrupt"} :
         LET read == get_tracked_from_cluster(rd, mirror)
             cached == get_tracked_cache(cache)
             view == TrackedView(read, cached)
         IN  IF rd = "corrupt" \/ TailRaises(view, queued)
             THEN /\ pc' = "idle"
                  /\ result' = "raised:classify"
                  /\ UNCHANGED <<tracked, to_rerun, seen>>
             ELSE \E tails \in [Tailed(view, queued) -> Tails] :
                  /\ to_rerun' = QueueIter(Candidates(view, queued, tails, threshold))
                  /\ seen' = [read |-> read, cached |-> cached, view |-> view,
                              cands |-> to_rerun', payload |-> <<>>]
                  /\ tracked' = UpdateTracked(view, queued)
                  /\ pc' = IF to_rerun' = <<>> THEN "persist" ELSE "rerun"
                  /\ UNCHANGED result
    /\ UNCHANGED <<mirror, cache, continue_on_rerun, minted, queued,
                   qrerun_allowed, log, sweeps>>
    /\ UNCHANGED not_sweep

\* rerun_jobs, lines 168-179: one turn of the loop over to_rerun
RerunStep ==
    /\ pc = "rerun"
    /\ to_rerun # <<>>
    /\ \E qr \in SweepQrerunRcs, qs \in QsubRcs, nosuch \in BOOLEAN, drc \in QdelRcs :
         LET job == Head(to_rerun)
             r == rerun_job(job, qrerun_allowed, qr, qs, nosuch)
             del == r.res = "ok" /\ DeleteWanted(job, queued, continue_on_rerun)
             dres == delete_job(drc)
             flow == IF r.res = "ok"
                     THEN IF del /\ dres = "raise" THEN OnDeletionError ELSE "continue"
                     ELSE OnSubmissionError(r.res)
         IN  /\ qrerun_allowed' = r.allowed
             /\ tracked' = AfterRerun(tracked, job, r.res)
             /\ log' = log \o <<Entry("rerun", job.id, r.res)>>
                            \o (IF del THEN <<Entry("qdel", job.id, dres)>> ELSE <<>>)
             /\ to_rerun' = Tail(to_rerun)
             /\ pc' = IF flow = "raise" THEN "idle"
                       ELSE IF flow = "break" \/ Tail(to_rerun) = <<>> THEN "persist"
                       ELSE "rerun"
             /\ result' = IF flow # "raise" THEN result
                           ELSE IF r.res = "ok" THEN "raised:delete" ELSE "raised:rerun"
    /\ UNCHANGED <<mirror, cache, continue_on_rerun, minted, queued, seen, sweeps>>
    /\ UNCHANGED not_sweep

\* rerun_jobs, lines 181-199
Persist ==
    /\ pc = "persist"
    /\ \E rc \in WriteRcs :
         LET payload == tracked_json(tracked)
         IN  /\ mirror' = MirrorAfterWrite(mirror, payload, rc)
             /\ cache' = CacheAfterWrite(cache, payload, rc)
             /\ log' = log \o <<Entry("write", "", IF rc = 0 THEN "ok" ELSE "fail")>>
                            \o (IF rc # 0 THEN <<Entry("cache_write", "", "ok")>>
                                ELSE IF cache # <<>> THEN <<Entry("cache_rm", "", "ok")>>
                                ELSE <<>>)
    /\ pc' = "idle"
    /\ result' = "returned"
    /\ seen' = [seen EXCEPT !.payload = <<tracked_json(tracked)>>]
    /\ UNCHANGED <<continue_on_rerun, minted, queued, tracked, to_rerun,
                   qrerun_allowed, sweeps>>
    /\ UNCHANGED not_sweep

\* track_new_jobs, called by submit_or_track with Job.unsubmitted(...) after a
\* failed submission; here the client runs between two sweeps
TrackNew ==
    /\ pc = "idle"
    /\ \E i \in UnsubIds \ minted, rd \in {"ok", "empty"}, rc \in WriteRcs :
         LET new == QueueExtend(get_tracked_from_cluster(rd, mirror), <<unsubmitted(i)>>)
         IN  /\ mirror' = MirrorAfterWrite(mirror, tracked_json(new), rc)
             /\ minted' = minted \cup {i}
    /\ UNCHANGED <<cache, continue_on_rerun, pc, queued, tracked, to_rerun,
                   qrerun_allowed, seen, log, result, sweeps>>
    /\ UNCHANGED not_sweep

Next == SweepStart \/ Classify \/ RerunStep \/ Persist \/ TrackNew

Spec == Init /\ [][Next]_vars

\* no rerun_jobs invocation has started
SweepIdle ==
    /\ mirror = <<>>
    /\ cache = <<>>
    /\ continue_on_rerun = FALSE
    /\ minted = {}
    /\ pc = "idle"
    /\ queued = <<>>
    /\ tracked = <<>>
    /\ to_rerun = <<>>
    /\ qrerun_allowed = TRUE
    /\ seen = NothingSeen
    /\ log = <<>>
    /\ result = "none"
    /\ sweeps = 0

----------------------------------------------------------------------------
(* Properties of the sweep *)

IsRerun(e, res) == e.op = "rerun" /\ e.res = res

\* ids whose rerun_job returned without error in this invocation
RerunOk == {log[k].id : k \in {n \in 1..Len(log) : IsRerun(log[n], "ok")}}

\* ids for which qdel was issued in this invocation
Deleted == {log[k].id : k \in {n \in 1..Len(log) : log[n].op = "qdel"}}

Has(op, res) == \E k \in 1..Len(log) : log[k].op = op /\ log[k].res = res

Returned == pc = "idle" /\ result = "returned"

\* ids the invocation had in its tracked Queue before the loop
TrackedBefore == Ids(seen.view) \cup Ids(queued)

\* C1: queue-full containment.  Once rerun_job has raised QueueFullError for a
\* candidate, the invocation issues no further rerun_job and no delete_job;
\* every job tracked at that moment (the failing candidate and the candidates
\* not yet visited included) is in the tracked set the sweep persists; the
\* mirror write is attempted, and after a successful write no cache exists.
C1_QueueFullContainment ==
    \A k \in 1..Len(log) :
        IsRerun(log[k], "full") =>
            /\ \A m \in (k + 1)..Len(log) : log[m].op \notin {"rerun", "qdel"}
            /\ pc \in {"persist", "idle"}
            /\ log[k].id \in Ids(tracked)
            /\ \A i \in 1..Len(to_rerun) : to_rerun[i].id \in Ids(tracked)
            /\ TrackedBefore \ RerunOk = Ids(tracked)
            /\ pc = "idle" =>
                   /\ result = "returned"
                   /\ seen.payload = <<tracked_json(tracked)>>
                   /\ Has("write", "ok") \/ Has("write", "fail")
                   /\ Has("write", "ok") => cache = <<>>

C1_Witness ==
    /\ Returned
    /\ Has("rerun", "full")
    /\ Has("rerun", "ok")
    /\ to_rerun # <<>>
    /\ Has("write", "ok")
    /\ Has("cache_rm", "ok")

InQueue(job, q) == \E n \in 1..Len(q) : q[n] = job

\* the invocation has classified and not yet returned or raised
Classified == pc \in {"rerun", "persist"}

\* C2: fallback-cache replay.  A sweep that returns after a failed mirror write
\* leaves the cache file in place; the cache file changes in the persist step
\* only, so the next sweep meets it; the tracked view a sweep classifies over
\* holds every job of the cache file and every job read from the mirror whose
\* id the cache does not hold, and nothing else; a sweep that returns after a
\* successful mirror write leaves no cache file.
C2_FallbackCacheReplay ==
    /\ [](Returned /\ Has("write", "fail") => cache # <<>>)
    /\ [](Returned /\ Has("write", "ok") => cache = <<>>)
    /\ [][cache' # cache => pc = "persist"]_vars
    /\ [](Classified =>
            /\ seen.cached = get_tracked_cache(cache)
            /\ seen.read \in {get_tracked_from_cluster("ok", mirror),
                              get_tracked_from_cluster("empty", mirror)}
            /\ \A i \in 1..Len(seen.cached) : InQueue(seen.cached[i], seen.view)
            /\ \A i \in 1..Len(seen.read) :
                   seen.read[i].id \notin Ids(seen.cached) => InQueue(seen.read[i], seen.view)
            /\ Ids(seen.view) = Ids(seen.read) \cup Ids(seen.cached))

C2_Witness ==
    /\ Classified
    /\ sweeps = 2
    /\ cache # <<>>
    /\ \E i \in 1..Len(cache[1]) : cache[1][i].id \notin Ids(seen.read)

C4_AbortOnLiveViewFailure ==
    /\ [](result = "raised:acquire" => pc = "idle" /\ log = <<>>)
    /\ [][(sweeps' # sweeps /\ result' = "raised:acquire")
            => (pc' = "idle" /\ log' = <<>> /\ mirror' = mirror /\ cache' = cache)]_vars

C4_Witness ==
    /\ result = "raised:acquire"
    /\ mirror # <<>>
    /\ cache # <<>>

Visited == {log[k].id : k \in {n \in 1..Len(log) : log[n].op = "rerun"}}

C6_MissingJobScriptUntracked ==
    \A k \in 1..Len(log) :
        IsRerun(log[k], "missing") => log[k].id \notin Ids(tracked)

C6_Witness ==
    /\ Returned
    /\ \E k \in 1..Len(log) :
         IsRerun(log[k], "missing") /\ log[k].id \in Ids(seen.payload[1])

CandPos(id) == CHOOSE p \in 1..Len(seen.cands) : seen.cands[p].id = id

\* the candidate at position p ended the loop: QueueFullError, or an exception
\* that is no JobSubmissionError
Stopper(p) ==
    \E m \in 1..Len(log) :
        /\ log[m].id = seen.cands[p].id
        /\ \/ IsRerun(log[m], "full")
           \/ IsRerun(log[m], "keyerror")
           \/ log[m].op = "qdel" /\ log[m].res = "raise"

Pending(id) == pc = "rerun" /\ \E i \in 1..Len(to_rerun) : to_rerun[i].id = id

Clocks == {11, 12}

\* C9: sweep fixed-point.  A sweep that met an empty live queue and a tracked
\* view of running jobs whose walltime has elapsed, none of them killed,
\* returns with an empty tracked Queue.
C9_SweepFixedPoint ==
    \A clock \in Clocks :
        (/\ Returned
         /\ queued = <<>>
         /\ seen.view # <<>>
         /\ seen.cands = <<>>
         /\ \A i \in 1..Len(seen.view) :
                is_running(seen.view[i]) /\ has_elapsed(seen.view[i], clock))
        => tracked = <<>> /\ seen.payload = << <<>> >>

C9_Witness ==
    /\ Returned
    /\ queued = <<>>
    /\ seen.cands = <<>>
    /\ log = <<Entry("write", "", "ok")>>
    /\ Len(seen.view) = 2
    /\ \A i \in 1..Len(seen.view) :
           is_running(seen.view[i]) /\ has_elapsed(seen.view[i], 11)
    /\ mirror = seen.view

Reruns(id) == Cardinality({k \in 1..Len(log) : log[k].op = "rerun" /\ log[k].id = id})

\* a live job that was not tracked, has reached the threshold and was rerun
NewLiveRerun(job) ==
    /\ InQueue(job, queued)
    /\ job.id \notin Ids(seen.view)
    /\ percent_completion_ge(job, threshold)
    /\ job.id \in RerunOk

----------------------------------------------------------------------------
(* The classification of rerun_jobs on its own *)

\* thresholds the driver may pass: below, and at, the completion of a job
\* that has used 9 of its 10 hours
Thresholds == {85, threshold}

\* a tracked view of jobs qstat has shown before, in ascending id order
TrackedIds == LiveIds \cup EndedIds

TrackedOrder == <<"a", "b", "c">>

TrackedViews ==
    {SelectSeq([n \in 1..Len(TrackedOrder) |-> RunningJob(TrackedOrder[n], 8, 10, 0)],
               LAMBDA j : j.id \in ids) : ids \in SUBSET TrackedIds}

\* live queues that may also hold jobs waiting in state Q
LiveOrQueued == LiveJobs \cup {QueuedJob(i, w) : i \in LiveIds, w \in WalltimeVals}

LiveQueuesQ ==
    UNION {{q \in [1..n -> LiveOrQueued] :
              \A a, b \in 1..n : a < b => Before(q[a].id, q[b].id)} :
           n \in 0..Cardinality(LiveIds)}

InitClassify ==
    /\ SweepIdle
    /\ DriverIdle
    /\ SchemaIdle
    /\ StoreIdle
    /\ StateIdle
    /\ AlertsIdle
    /\ LoopIdle
    /\ AdapterIdle
    /\ DedupIdle
    /\ IterIdle
    /\ UnsubIdle
    /\ TicksIdle
    /\ ShellIdle
    /\ RetryIdle
    /\ CachefileIdle
    /\ ProbeIdle
    /\ OnceIdle
    /\ RaceIdle
    /\ \E view \in TrackedViews, live \in LiveQueuesQ, t \in Thresholds :
         \E tails \in [Tailed(view, live) -> Tails] :
            cl_in = [view |-> view, live |-> live, tails |-> tails, t |-> t]
    /\ cl_out = <<>>

\* rerun_jobs, lines 156-159
ClassifyOnce ==
    /\ cl_out = <<>>
    /\ cl_out' = <<QueueIter(Candidates(cl_in.view, cl_in.live, cl_in.tails, cl_in.t))>>
    /\ UNCHANGED cl_in
    /\ UNCHANGED not_classify

NextClassify == ClassifyOnce

SpecClassify == InitClassify /\ [][NextClassify]_vars

----------------------------------------------------------------------------
(* The start of the driver: schedtools.interfaces.rerun.rerun *)

(* The driver computes with floats.  A float is modelled as a binary        *)
(* fixed-point number: the integer n stands for n / Grid, and an operation  *)
(* whose exact result is off the grid is rounded to the nearest grid point, *)
(* ties to even, as IEEE arithmetic rounds to the nearest double.           *)
FracBits == 6

Grid == 2 ^ FracBits

EXPECTED_WALLTIME == 72

\* 1.5
SAFE_BUFFER == (3 * Grid) \div 2

\* n / d rounded to the nearest integer, ties to even (n >= 0, d > 0)
fl(n, d) ==
    LET q == n \div d
        r == n % d
    IN  IF 2 * r < d THEN q
        ELSE IF 2 * r > d THEN q + 1
        ELSE IF q % 2 = 0 THEN q ELSE q + 1

\* x * y and x / c on the grid
fmul(x, y) == fl(x * y, Grid)

fdiv(x, c) == fl(x, c)

\* line 60: (1 - (args.threshold / 100)) * EXPECTED_WALLTIME < SAFE_BUFFER * args.interval
unsafe(t, i) ==
    (Grid - fdiv(t, 100)) * EXPECTED_WALLTIME < fmul(SAFE_BUFFER, i)

\* mutant: the correction forgets the safety buffer
corrected_threshold_no_buffer(t, i) ==
    IF unsafe(t, i)
    THEN (Grid - fdiv(i, EXPECTED_WALLTIME)) * 100
    ELSE t

\* lines 60-67: the threshold the driver settles on
corrected_threshold(t, i) ==
    IF unsafe(t, i)
    THEN (Grid - fdiv(fmul(SAFE_BUFFER, i), EXPECTED_WALLTIME)) * 100
    ELSE t

\* -t (percent) and -i (hours), in grid units
RequestedThresholds == {p * Grid : p \in {50, 90, 95, 97, 98, 99, 100}}

Intervals == {Grid \div 2, Grid, 2 * Grid, 3 * Grid, 5 * Grid, 6 * Grid, 7 * Grid,
              48 * Grid, 60 * Grid}

InitDriver ==
    /\ SweepIdle
    /\ ClassifyIdle
    /\ SchemaIdle
    /\ StoreIdle
    /\ StateIdle
    /\ AlertsIdle
    /\ LoopIdle
    /\ AdapterIdle
    /\ DedupIdle
    /\ IterIdle
    /\ UnsubIdle
    /\ TicksIdle
    /\ ShellIdle
    /\ RetryIdle
    /\ CachefileIdle
    /\ ProbeIdle
    /\ OnceIdle
    /\ RaceIdle
    /\ \E t \in RequestedThresholds, i \in Intervals, service \in BOOLEAN :
         driver = [t |-> t, i |-> i, service |-> service, threshold |-> <<>>,
                   pc |-> "parsed"]

\* lines 59-67
Startup ==
    /\ driver.pc = "parsed"
    /\ driver' = [driver EXCEPT !.threshold = <<corrected_threshold(driver.t, driver.i)>>,
                                !.pc = "corrected"]
    /\ UNCHANGED not_driver

\* lines 80-93: with -s the command line of the service is registered and the
\* driver returns; the service starts the driver anew with these arguments
RegisterService ==
    /\ driver.pc = "corrected"
    /\ driver.service
    /\ driver' = [driver EXCEPT !.pc = "service"]
    /\ UNCHANGED not_driver

\* lines 95-135: the threshold is handed to rerun_jobs
StartSweeping ==
    /\ driver.pc = "corrected"
    /\ ~driver.service
    /\ driver' = [driver EXCEPT !.pc = "sweeping"]
    /\ UNCHANGED not_driver

NextDriver == Startup \/ RegisterService \/ StartSweeping

SpecDriver == InitDriver /\ [][NextDriver]_vars

\* (1 - t/100) * EXPECTED_WALLTIME >= SAFE_BUFFER * i + slack/Grid, in exact
\* arithmetic, both sides multiplied by 100 * Grid
safe_within(t, i, slack) ==
    (100 * Grid - t) * EXPECTED_WALLTIME * Grid >= 100 * (SAFE_BUFFER * i + slack * Grid)

----------------------------------------------------------------------------
(* schedtools.schemas: match_jobs *)

(* An argument of match_jobs is a string or a record.  A record may expose  *)
(* id and scheduler_id (hasattr); an attribute is a sequence of length 0    *)
(* (not exposed) or 1.  Job.parse leaves id None when the job's environment *)
(* holds no job id; None is a value no string equals.  rev tells apart two  *)
(* records with the same identifiers.                                       *)
None == "<None>"

StrVals == {"x", "y"}

Str(v) == [kind |-> "str", s |-> v]

Rec(id, sid, rev) == [kind |-> "rec", id |-> id, scheduler_id |-> sid, rev |-> rev]

Attr(vals) == {<<>>} \cup {<<v>> : v \in vals}

Records == {Rec(id, sid, 0) : id \in Attr(StrVals \cup {None}), sid \in Attr(StrVals)}

MatchArgs == {Str(v) : v \in StrVals} \cup Records

\* _match_str_job, lines 57-63
match_str_job(a, b) ==
    \/ Len(b.id) > 0 /\ a = b.id[1]
    \/ Len(b.scheduler_id) > 0 /\ a = b.scheduler_id[1]

\* mutant: an id is also compared with the scheduler_id of the other side
match_jobs_cross(a, b) ==
    IF a.kind = "str" /\ b.kind = "str" THEN a.s = b.s
    ELSE IF a.kind = "str" THEN match_str_job(a.s, b)
    ELSE IF b.kind = "str" THEN match_str_job(b.s, a)
    ELSE \/ Len(a.id) > 0 /\ Len(b.id) > 0 /\ a.id = b.id
         \/ Len(a.scheduler_id) > 0 /\ Len(b.scheduler_id) > 0
              /\ a.scheduler_id = b.scheduler_id
         \/ Len(a.id) > 0 /\ Len(b.scheduler_id) > 0 /\ a.id = b.scheduler_id
         \/ Len(a.scheduler_id) > 0 /\ Len(b.id) > 0 /\ a.scheduler_id = b.id

\* match_jobs, lines 66-82
match_jobs(a, b) ==
    IF a.kind = "str" /\ b.kind = "str" THEN a.s = b.s
    ELSE IF a.kind = "str" THEN match_str_job(a.s, b)
    ELSE IF b.kind = "str" THEN match_str_job(b.s, a)
    ELSE \/ Len(a.id) > 0 /\ Len(b.id) > 0 /\ a.id = b.id
         \/ Len(a.scheduler_id) > 0 /\ Len(b.scheduler_id) > 0
              /\ a.scheduler_id = b.scheduler_id

InitMatch ==
    /\ SweepIdle
    /\ ClassifyIdle
    /\ DriverIdle
    /\ \E a \in MatchArgs, b \in MatchArgs : matched = <<[a |-> a, b |-> b, res |-> <<>>]>>
    /\ sq = NoQueue
    /\ merged = <<>>
    /\ StoreIdle
    /\ StateIdle
    /\ AlertsIdle
    /\ LoopIdle
    /\ AdapterIdle
    /\ DedupIdle
    /\ IterIdle
    /\ UnsubIdle
    /\ TicksIdle
    /\ ShellIdle
    /\ RetryIdle
    /\ CachefileIdle
    /\ ProbeIdle
    /\ OnceIdle
    /\ RaceIdle

Match ==
    /\ matched[1].res = <<>>
    /\ matched' = <<[matched[1] EXCEPT !.res = <<match_jobs(matched[1].a, matched[1].b)>>]>>
    /\ UNCHANGED <<sq, merged>>
    /\ UNCHANGED not_schema

NextMatch == Match

SpecMatch == InitMatch /\ [][NextMatch]_vars

\* the string matches the record: it is the record's id or its scheduler_id
StrMatches(v, r) == <<v>> = r.id \/ <<v>> = r.scheduler_id

\* C13: identity matching.  Two records match iff both expose id and the ids
\* are equal, or both expose scheduler_id and these are equal (so an id equal
\* to the other side's scheduler_id decides nothing); a string matches a
\* record iff it is the record's id or its scheduler_id.
C13_IdentityMatching ==
    \A n \in 1..Len(matched) :
        LET a == matched[n].a
            b == matched[n].b
        IN  matched[n].res # <<>> =>
              /\ (a.kind = "rec" /\ b.kind = "rec") =>
                   (matched[n].res[1] <=>
                      \/ a.id # <<>> /\ a.id = b.id
                      \/ a.scheduler_id # <<>> /\ a.scheduler_id = b.scheduler_id)
              /\ (a.kind = "str" /\ b.kind = "rec") =>
                   (matched[n].res[1] <=> StrMatches(a.s, b))
              /\ (a.kind = "rec" /\ b.kind = "str") =>
                   (matched[n].res[1] <=> StrMatches(b.s, a))

\* the id of one record is the scheduler_id of the other and they do not match
C13_Witness ==
    /\ matched # <<>>
    /\ matched[1].a.kind = "rec"
    /\ matched[1].b.kind = "rec"
    /\ matched[1].a.id = <<"x">>
    /\ matched[1].a.scheduler_id = <<"y">>
    /\ matched[1].b.id = <<"y">>
    /\ matched[1].b.scheduler_id = <<"x">>
    /\ matched[1].res = <<FALSE>>

----------------------------------------------------------------------------
(* schedtools.schemas: Queue *)

MaxQueueLen == 3

MaxParsed == 2

\* a JobSpec has an id (a uuid by default) and no scheduler_id
JobSpecs == {Rec(<<v>>, <<>>, 0) : v \in StrVals}

\* a Job parsed from the scheduler's answer: its scheduler_id is the key of
\* the answer, its id the JOB_ID of its environment or None
Jobs == {Rec(<<v>>, <<w>>, 0) : v \in StrVals \cup {None}, w \in StrVals}

\* Queue.parse, lines 402-404: one Job per key of the answer, in its order
ParsedQueues ==
    {q \in UNION {[1..n -> Jobs] : n \in 0..MaxParsed} :
        \A i \in 1..Len(q), j \in 1..Len(q) :
            i # j => q[i].scheduler_id # q[j].scheduler_id}

\* the positions of the entries that match the job or the string
Hits(jobs, job) == {i \in 1..Len(jobs) : match_jobs(jobs[i], job)}

First(S) == CHOOSE i \in S : \A j \in S : i <= j

\* Queue.add, lines 415-421: the first matching entry is replaced, else append
add(jobs, job) ==
    IF Hits(jobs, job) = {} THEN Append(jobs, job)
    ELSE [jobs EXCEPT ![First(Hits(jobs, job))] = job]

\* Queue.merge, lines 423-427: a copy of self with every job of other added
RECURSIVE merge(_, _)
merge(self, other) ==
    IF other = <<>> THEN self
    ELSE merge(add(self, Head(other)), Tail(other))

\* Queue.__contains__, lines 429-433
contains(jobs, job) == Hits(jobs, job) # {}

InitQueue ==
    /\ SweepIdle
    /\ ClassifyIdle
    /\ DriverIdle
    /\ SchemaIdle
    /\ StoreIdle
    /\ StateIdle
    /\ AlertsIdle
    /\ LoopIdle
    /\ AdapterIdle
    /\ DedupIdle
    /\ IterIdle
    /\ UnsubIdle
    /\ TicksIdle
    /\ ShellIdle
    /\ RetryIdle
    /\ CachefileIdle
    /\ ProbeIdle
    /\ OnceIdle
    /\ RaceIdle

Add(job) ==
    /\ Len(add(sq.jobs, job)) <= MaxQueueLen
    /\ sq' = [sq EXCEPT !.jobs = add(sq.jobs, job)]
    /\ merged' = <<>>
    /\ UNCHANGED matched
    /\ UNCHANGED not_schema

Parse ==
    /\ sq = NoQueue
    /\ \E q \in ParsedQueues \ {<<>>} : sq' = [jobs |-> q, parsed |-> TRUE]
    /\ merged' = <<>>
    /\ UNCHANGED matched
    /\ UNCHANGED not_schema

\* self.merge(other) and other.merge(self) for a parsed queue other
Merge ==
    /\ merged = <<>>
    /\ \E other \in ParsedQueues :
          merged' = <<[other |-> other,
                       ab |-> merge(sq.jobs, other),
                       ba |-> merge(other, sq.jobs)]>>
    /\ UNCHANGED <<matched, sq>>
    /\ UNCHANGED not_schema

NextQueue ==
    \/ \E job \in JobSpecs \cup Jobs : Add(job)
    \/ Parse
    \/ Merge

SpecQueue == InitQueue /\ [][NextQueue]_vars

Range(q) == {q[i] : i \in 1..Len(q)}

\* C14: queue uniqueness.  In a Queue built from the empty Queue by add
\* calls alone, no two entries match.
C14_QueueUniqueness ==
    ~sq.parsed =>
        \A i \in 1..Len(sq.jobs), j \in 1..Len(sq.jobs) :
            i # j => ~match_jobs(sq.jobs[i], sq.jobs[j])

\* three add calls have left two entries with the same scheduler_id
C14_Witness ==
    /\ ~sq.parsed
    /\ Len(sq.jobs) = 2
    /\ sq.jobs[1].id # sq.jobs[2].id
    /\ sq.jobs[1].scheduler_id # <<>>
    /\ sq.jobs[1].scheduler_id = sq.jobs[2].scheduler_id

\* C15: merge commutativity on disjoint ids.  When no job of A matches a job
\* of B, A.merge(B) and B.merge(A) hold the same jobs.
C15_MergeCommutes ==
    \A n \in 1..Len(merged) :
        (\A a \in Range(sq.jobs), b \in Range(merged[n].other) : ~match_jobs(a, b))
            => Range(merged[n].ab) = Range(merged[n].ba)

\* a parsed queue of two jobs without id merged with the empty queue
C15_Witness ==
    /\ merged # <<>>
    /\ merged[1].other = <<>>
    /\ sq.parsed
    /\ Len(merged[1].ab) = 2
    /\ Len(merged[1].ba) = 1

\* the tracked row the live job adopts by id: the first row with its id
Adopted(rows, job) ==
    {i \in 1..Len(rows) :
        /\ rows[i].id = job.id
        /\ \A k \in 1..(i - 1) : rows[k].id # job.id}

\* the live jobs that match no rows row
Fresh(rows, live) == {l \in Range(live) : ~contains(rows, l)}

\* C16: merge of live into tracked.  A live job whose id is the id of a
\* tracked row replaces that row in place, and every live job that matches no
\* tracked row becomes a row of its own.
C16_MergeLiveIntoTracked ==
    \A n \in 1..Len(merged) :
        /\ (Len(merged[n].other) = 1 /\ merged[n].other[1].id # <<None>>) =>
              \A i \in Adopted(sq.jobs, merged[n].other[1]) :
                  /\ Len(merged[n].ab) = Len(sq.jobs)
                  /\ merged[n].ab[i] = merged[n].other[1]
        /\ Fresh(sq.jobs, merged[n].other) \subseteq Range(merged[n].ab)

\* two live jobs without id and with different scheduler_ids are merged into
\* an empty tracked queue and one row is left
C16_Witness ==
    /\ merged # <<>>
    /\ sq.jobs = <<>>
    /\ Len(merged[1].other) = 2
    /\ merged[1].other[1].id = <<None>>
    /\ merged[1].other[2].id = <<None>>
    /\ Len(merged[1].ab) = 1

----------------------------------------------------------------------------
(* schedtools.sql and schedtools.tracking: the jobs table *)

(* One sqlite3 connection is shared by every caller (db=conn).  Python's    *)
(* sqlite3 opens a transaction before the first INSERT, UPDATE or DELETE    *)
(* and closes it at conn.commit(); a statement that raises leaves the       *)
(* transaction open with the rows written before it.                        *)
MaxBatch == 2

MaxTracked == 2

OnConflict == {"update", "skip", "throw"}

JobStates == {"unsubmitted", "running"}

PathVals == {"p"}

\* the JobSpecs callers hand over, lines 224-248 (from_unsubmitted)
SpecInputs ==
    {[id |-> id, state |-> "unsubmitted", jobscript_path |-> path] :
        id \in StoreIds, path \in PathVals}

Batches == UNION {[1..n -> SpecInputs] : n \in 1..MaxBatch}

\* the columns of the row of a JobSpec (to_sqlite)
RowOf(job) == [state |-> job.state, jobscript_path |-> job.jobscript_path]

\* JobSpec.from_sqlite
from_sqlite(id, row) ==
    [id |-> id, state |-> row.state, jobscript_path |-> row.jobscript_path]

\* what the connection reads: its open transaction, else the committed rows
View(d, t) == IF t = <<>> THEN d ELSE t[1]

\* the transaction holds changes that are not committed
Dirty(d, t) == t # <<>> /\ t[1] # d

\* mutant: a conflicting row is removed under skip
upsert_row_drop(work, job, mode) ==
    IF work[job.id] = <<>>
    THEN [work |-> [work EXCEPT ![job.id] = <<RowOf(job)>>], raised |-> FALSE]
    ELSE IF mode = "update"
    THEN [work |-> [work EXCEPT ![job.id] = <<RowOf(job)>>], raised |-> FALSE]
    ELSE IF mode = "skip"
    THEN [work |-> [work EXCEPT ![job.id] = <<>>], raised |-> FALSE]
    ELSE [work |-> work, raised |-> TRUE]

\* mutant: a conflicting row is overwritten under skip as under update
upsert_row_overwrite(work, job, mode) ==
    IF work[job.id] = <<>>
    THEN [work |-> [work EXCEPT ![job.id] = <<RowOf(job)>>], raised |-> FALSE]
    ELSE IF mode \in {"update", "skip"}
    THEN [work |-> [work EXCEPT ![job.id] = <<RowOf(job)>>], raised |-> FALSE]
    ELSE [work |-> work, raised |-> TRUE]

\* one INSERT of upsert_jobs with its conflict clause, lines 124-152:
\* DO UPDATE SET the columns, DO NOTHING, or no clause (IntegrityError)
upsert_row(work, job, mode) ==
    IF work[job.id] = <<>>
    THEN [work |-> [work EXCEPT ![job.id] = <<RowOf(job)>>], raised |-> FALSE]
    ELSE IF mode = "update"
    THEN [work |-> [work EXCEPT ![job.id] = <<RowOf(job)>>], raised |-> FALSE]
    ELSE IF mode = "skip"
    THEN [work |-> work, raised |-> FALSE]
    ELSE [work |-> work, raised |-> TRUE]

\* conn.executemany: the rows in order, up to the first that raises
RECURSIVE executemany(_, _, _)
executemany(work, jobs, mode) ==
    IF jobs = <<>> THEN [work |-> work, raised |-> FALSE]
    ELSE LET r == upsert_row(work, Head(jobs), mode)
         IN  IF r.raised THEN r ELSE executemany(r.work, Tail(jobs), mode)

\* upsert_jobs, lines 110-154: executemany, then conn.commit() unless it raised
upsert_jobs(d, t, jobs, mode) ==
    LET r == executemany(View(d, t), jobs, mode)
    IN  IF r.raised
        THEN [db |-> d, txn |-> <<r.work>>, raised |-> TRUE]
        ELSE [db |-> r.work, txn |-> <<>>, raised |-> FALSE]

StoreOrder == <<"j1", "j2">>

\* JobTrackingQueue.pull, lines 209-212: one JobSpec per row
RECURSIVE pull_from(_, _)
pull_from(rows, n) ==
    IF n > Len(StoreOrder) THEN <<>>
    ELSE IF rows[StoreOrder[n]] = <<>> THEN pull_from(rows, n + 1)
    ELSE <<from_sqlite(StoreOrder[n], rows[StoreOrder[n]][1])>> \o pull_from(rows, n + 1)

pull(rows) == pull_from(rows, 1)

\* job.id in self.jobs
Registered(jobs, id) == \E i \in 1..Len(jobs) : jobs[i].id = id

\* the loop of JobTrackingQueue.register, lines 195-205
RECURSIVE register_loop(_, _, _)
register_loop(jobs, batch, mode) ==
    IF batch = <<>> THEN [jobs |-> jobs, raised |-> FALSE]
    ELSE IF Registered(jobs, Head(batch).id) /\ mode = "throw"
    THEN [jobs |-> jobs, raised |-> TRUE]
    ELSE IF Registered(jobs, Head(batch).id) /\ mode = "skip"
    THEN register_loop(jobs, Tail(batch), mode)
    ELSE register_loop(Append(jobs, Head(batch)), Tail(batch), mode)

\* Queue.pop on the jobs of the tracking queue: the first match is removed
pop_first(jobs, id) ==
    LET i == First({k \in 1..Len(jobs) : jobs[k].id = id})
    IN  SubSeq(jobs, 1, i - 1) \o SubSeq(jobs, i + 1, Len(jobs))

InitStore ==
    /\ SweepIdle
    /\ ClassifyIdle
    /\ DriverIdle
    /\ SchemaIdle
    /\ StoreIdle
    /\ StateIdle
    /\ AlertsIdle
    /\ LoopIdle
    /\ AdapterIdle
    /\ DedupIdle
    /\ IterIdle
    /\ UnsubIdle
    /\ TicksIdle
    /\ ShellIdle
    /\ RetryIdle
    /\ CachefileIdle
    /\ ProbeIdle
    /\ OnceIdle
    /\ RaceIdle

\* upsert_jobs(conn, jobs, on_conflict)
Upsert(jobs, mode) ==
    LET r == upsert_jobs(db, txn, jobs, mode)
    IN  /\ db' = r.db
        /\ txn' = r.txn
        /\ call' = [NoCall EXCEPT !.op = "upsert", !.mode = mode,
                                  !.jobs = jobs,
                                  !.raised = r.raised,
                                  !.again = (call.op = "upsert" /\ call.mode = mode
                                             /\ call.jobs = jobs),
                                  !.kept = (r.db = db),
                                  !.flushed = (~r.raised /\ Dirty(db, txn))]
        /\ UNCHANGED tq
        /\ UNCHANGED not_store

\* update_job_state(state=..., job_id=..., conn=conn), lines 44-81
UpdateJobState(id, st) ==
    LET work == View(db, txn)
    IN  /\ db' = IF work[id] = <<>> THEN work
                 ELSE [work EXCEPT ![id] = <<[work[id][1] EXCEPT !.state = st]>>]
        /\ txn' = <<>>
        /\ call' = [NoCall EXCEPT !.op = "update_job_state", !.id = id,
                                  !.kept = (db' = db),
                                  !.flushed = Dirty(db, txn)]
        /\ UNCHANGED tq
        /\ UNCHANGED not_store

\* JobTrackingQueue(db=conn): ensure_table commits, then pull
Open ==
    /\ db' = View(db, txn)
    /\ txn' = <<>>
    /\ tq' = <<pull(db')>>
    /\ call' = [NoCall EXCEPT !.op = "open", !.kept = (db' = db),
                              !.flushed = Dirty(db, txn)]
    /\ UNCHANGED not_store

\* JobTrackingQueue.register(jobs, on_conflict=...), lines 183-207
Register(jobs, mode) ==
    /\ tq # <<>>
    /\ LET l == register_loop(tq[1], jobs, mode)
           r == upsert_jobs(db, txn, jobs, mode)
       IN  /\ Len(l.jobs) <= MaxTracked
           /\ tq' = <<l.jobs>>
           /\ db' = IF l.raised THEN db ELSE r.db
           /\ txn' = IF l.raised THEN txn ELSE r.txn
           /\ call' = [NoCall EXCEPT !.op = "register", !.mode = mode, !.jobs = jobs,
                                     !.raised = (l.raised \/ r.raised),
                                     !.kept = (db' = db),
                                     !.flushed = (~l.raised /\ ~r.raised /\ Dirty(db, txn))]
    /\ UNCHANGED not_store

\* JobTrackingQueue.pop(job_id), lines 214-218
Pop(id) ==
    /\ tq # <<>>
    /\ IF Registered(tq[1], id)
       THEN /\ tq' = <<pop_first(tq[1], id)>>
            /\ db' = [View(db, txn) EXCEPT ![id] = <<>>]
            /\ txn' = <<>>
            /\ call' = [NoCall EXCEPT !.op = "pop", !.id = id, !.kept = (db' = db),
                                      !.flushed = Dirty(db, txn)]
       ELSE /\ call' = [NoCall EXCEPT !.op = "pop", !.id = id, !.raised = TRUE]
            /\ UNCHANGED <<db, txn, tq>>
    /\ UNCHANGED not_store

NextStore ==
    \/ \E jobs \in Batches, mode \in OnConflict : Upsert(jobs, mode)
    \/ \E id \in StoreIds, st \in JobStates : UpdateJobState(id, st)
    \/ Open
    \/ \E jobs \in Batches, mode \in OnConflict : Register(jobs, mode)
    \/ \E id \in StoreIds : Pop(id)

SpecStore == InitStore /\ [][NextStore]_vars

\* the row of the table the job of a batch meets, if any, differs from its own
MeetsOtherRow(rows, job) == rows[job.id] # <<>> /\ rows[job.id] # <<RowOf(job)>>

\* C17: idempotent upsert.  On every content of the store and for every
\* batch, upsert_jobs with on_conflict=skip called twice leaves the table
\* (committed rows and rows the connection reads) as one call leaves it.
C17_IdempotentSkip ==
    /\ \A jobs \in Batches :
          LET once == upsert_jobs(db, txn, jobs, "skip")
              twice == upsert_jobs(once.db, once.txn, jobs, "skip")
          IN  /\ twice.db = once.db
              /\ twice.txn = once.txn
              /\ twice.raised = once.raised
    /\ (call.op = "upsert" /\ call.mode = "skip" /\ call.again) =>
          call.kept /\ txn = <<>>

\* the same batch was upserted twice with skip, one of its jobs meets a row
\* with other columns and the other job of the batch is a row now
C17_Witness ==
    /\ call.op = "upsert"
    /\ call.mode = "skip"
    /\ call.again
    /\ Len(call.jobs) = 2
    /\ MeetsOtherRow(db, call.jobs[1])
    /\ db[call.jobs[2].id] = <<RowOf(call.jobs[2])>>

\* C18: throw fails the entire batch.  An upsert with on_conflict=throw that
\* raises leaves the committed table as it was, and no later commit on the
\* connection makes a row of that batch durable.
C18_ThrowFailsBatch ==
    /\ (call.op = "upsert" /\ call.mode = "throw" /\ call.raised) => call.kept
    /\ ~call.flushed

\* update_job_state has committed rows that a raised upsert had left behind
C18_Witness ==
    /\ call.op = "update_job_state"
    /\ call.flushed
    /\ txn = <<>>
    /\ \E id \in StoreIds : id # call.id /\ db[id] # <<>>

\* C19: no silent overwrite.  A call of upsert_jobs or register with
\* on_conflict skip or throw leaves every row that existed before the call,
\* committed or read by the connection, with the columns it had.
C19_NoSilentOverwrite ==
    [][(call'.op \in {"upsert", "register"} /\ call'.mode \in {"skip", "throw"}) =>
          \A id \in StoreIds :
              /\ db[id] # <<>> => db'[id] = db[id]
              /\ View(db, txn)[id] # <<>> => View(db', txn')[id] = View(db, txn)[id]]_vars

\* a register with skip has met a row whose columns differ from its job's
C19_Witness ==
    /\ call.op = "register"
    /\ call.mode = "skip"
    /\ ~call.raised
    /\ \E i \in 1..Len(call.jobs) : MeetsOtherRow(db, call.jobs[i])

\* C20: durability of the tracking store.  A registered job is a row of the
\* table, a queue opened on the database holds the rows of the table, and
\* after pop(id) the queue that popped holds no job with that id and the
\* table has no such row.
C20_Durability ==
    /\ (call.op = "register" /\ ~call.raised) =>
          \A i \in 1..Len(call.jobs) :
              db[call.jobs[i].id] # <<>> /\ Registered(tq[1], call.jobs[i].id)
    /\ call.op = "open" =>
          \A id \in StoreIds : db[id] # <<>> <=> Registered(tq[1], id)
    /\ (call.op = "pop" /\ ~call.raised) =>
          ~Registered(tq[1], call.id) /\ db[call.id] = <<>>

\* pop(id) has returned and the queue still holds a job with that id
C20_Witness ==
    /\ call.op = "pop"
    /\ ~call.raised
    /\ Registered(tq[1], call.id)
    /\ db[call.id] = <<>>

----------------------------------------------------------------------------
(* schedtools.sql: update_job_state and the state column *)

(* The table is a list of rows (id, state, comment); modified_time is left  *)
(* out.  A write that fails leaves no change when its statement fails, and  *)
(* leaves the change in the open transaction when conn.commit() fails (the  *)
(* database is locked by another connection).                               *)

\* the values of JobState, lines 20-32
JobStateValues ==
    {"exiting", "held", "queued", "running", "moving", "waiting", "suspended",
     "unknown", "unsubmitted", "completed", "failed", "alert"}

\* the states callers hand to update_job_state (state: Union[JobState, str])
UpdateStates == {"running", "failed", "done"}

Comments == {<<>>, <<"c">>}

OnFail == {"raise", "warn", "ignore"}

\* job_id as given: <<>> when absent
GivenIds == {<<>>, <<"j1">>}

\* JOB_ID of the environment: <<>> when unset
EnvIds == {<<>>, <<"j1">>}

Faults == {"none", "execute", "commit"}

\* what the connection reads
Rows(t, h) == IF h = <<>> THEN t ELSE h[1]

HasRow(rows, id) == \E i \in 1..Len(rows) : rows[i].id = id

\* the state of the row with the id: <<>> when there is no such row
StateOf(rows, id) ==
    IF HasRow(rows, id)
    THEN <<rows[CHOOSE i \in 1..Len(rows) : rows[i].id = id].state>>
    ELSE <<>>

\* the state machine of a tracked job: unsubmitted -> queued -> running ->
\* (completed | failed | alert), queued <-> running on rerun, and
\* alert -> queued, failed -> queued on resubmit (can_resubmit_job)
Transitions ==
    {<<"unsubmitted", "queued">>, <<"queued", "running">>, <<"running", "queued">>,
     <<"running", "completed">>, <<"running", "failed">>, <<"running", "alert">>,
     <<"alert", "queued">>, <<"failed", "queued">>}

\* the change of state a statement made to a row is one of the state machine
Legal(before, after) ==
    \/ before = <<>>
    \/ after = <<>>
    \/ before = after
    \/ <<before[1], after[1]>> \in Transitions

\* a failed row was given a state other than queued
LeftFailed(before, after) ==
    /\ before = <<"failed">>
    /\ after # <<>>
    /\ after[1] \notin {"failed", "queued"}

\* INSERT ... with the conflict clause of upsert_jobs for one JobSpec;
\* DO UPDATE SET leaves the comment column out
insert_row(rows, job, mode) ==
    IF ~HasRow(rows, job.id)
    THEN [rows |-> Append(rows, [id |-> job.id, state |-> job.state, comment |-> <<>>]),
          raised |-> FALSE]
    ELSE IF mode = "update"
    THEN [rows |-> [i \in 1..Len(rows) |->
                      IF rows[i].id = job.id
                      THEN [rows[i] EXCEPT !.state = job.state] ELSE rows[i]],
          raised |-> FALSE]
    ELSE IF mode = "skip" THEN [rows |-> rows, raised |-> FALSE]
    ELSE [rows |-> rows, raised |-> TRUE]

\* UPDATE jobs SET state = ?[, comment = ?] WHERE id = ?, lines 51-57, 70-73
update_rows(rows, id, st, comment) ==
    [i \in 1..Len(rows) |->
        IF rows[i].id = id
        THEN [rows[i] EXCEPT !.state = st,
                             !.comment = IF comment = <<>> THEN @ ELSE comment]
        ELSE rows[i]]

\* DELETE FROM jobs WHERE id = ?
delete_rows(rows, id) == SelectSeq(rows, LAMBDA r : r.id # id)

\* the job id update_job_state uses, lines 62-67: job_id, else JOB_ID
resolve_id(job_id, env) == IF job_id # <<>> THEN job_id ELSE env

\* what update_job_state does with a failure, lines 76-80
on_failure(on_fail) ==
    IF on_fail = "raise" THEN "raised"
    ELSE IF on_fail = "warn" THEN "warned"
    ELSE "ignored"

\* every row but the one with the id is as it was, and no row came or went
Framed(before, after, id) ==
    /\ Len(after) = Len(before)
    /\ \A i \in 1..Len(before) :
          /\ after[i].id = before[i].id
          /\ before[i].id # id => after[i] = before[i]

InitState ==
    /\ SweepIdle
    /\ ClassifyIdle
    /\ DriverIdle
    /\ SchemaIdle
    /\ StoreIdle
    /\ StateIdle
    /\ AlertsIdle
    /\ LoopIdle
    /\ AdapterIdle
    /\ DedupIdle
    /\ IterIdle
    /\ UnsubIdle
    /\ TicksIdle
    /\ ShellIdle
    /\ RetryIdle
    /\ CachefileIdle
    /\ ProbeIdle
    /\ OnceIdle
    /\ RaceIdle

\* upsert_jobs(conn, job, on_conflict) with one JobSpec from from_unsubmitted
UpsertOne(id, mode) ==
    LET job == [id |-> id, state |-> "unsubmitted"]
        r == insert_row(Rows(table, held), job, mode)
    IN  /\ table' = IF r.raised THEN table ELSE r.rows
        /\ held' = IF r.raised THEN <<r.rows>> ELSE <<>>
        /\ upd' = [NoUpdate EXCEPT !.op = "upsert", !.failed = r.raised,
                                   !.outcome = IF r.raised THEN "raised" ELSE "ok",
                                   !.legal = Legal(StateOf(Rows(table, held), id),
                                                   StateOf(r.rows, id)),
                                   !.left_failed = LeftFailed(StateOf(Rows(table, held), id),
                                                              StateOf(r.rows, id)),
                                   !.same = (r.rows = Rows(table, held))]
        /\ UNCHANGED not_state

\* update_job_state(state=st, comment=..., job_id=..., conn=conn, on_fail=...)
UpdateState(job_id, env, st, comment, on_fail, fault) ==
    LET id == resolve_id(job_id, env)
        rows == Rows(table, held)
        failed == id = <<>> \/ fault # "none"
        written == IF id = <<>> \/ fault = "execute" THEN rows
                   ELSE update_rows(rows, id[1], st, comment)
    IN  /\ id = <<>> => fault = "none"
        /\ ~failed => on_fail = "raise"
        /\ table' = IF failed THEN table ELSE written
        /\ held' = IF failed
                   THEN (IF id = <<>> THEN held ELSE <<written>>)
                   ELSE <<>>
        /\ upd' = [NoUpdate EXCEPT !.op = "update", !.on_fail = on_fail,
                                   !.failed = failed,
                                   !.outcome = IF failed THEN on_failure(on_fail) ELSE "ok",
                                   !.legal = (id # <<>> =>
                                                Legal(StateOf(rows, id[1]),
                                                      StateOf(written, id[1]))),
                                   !.left_failed = (id # <<>> /\
                                                LeftFailed(StateOf(rows, id[1]),
                                                           StateOf(written, id[1]))),
                                   !.same = (Rows(table', held') = rows),
                                   !.framed = (id # <<>> => Framed(rows, written, id[1]))]
        /\ UNCHANGED not_state

\* the DELETE and commit of JobTrackingQueue.pop
DeleteRow(id) ==
    /\ HasRow(Rows(table, held), id)
    /\ table' = delete_rows(Rows(table, held), id)
    /\ held' = <<>>
    /\ upd' = [NoUpdate EXCEPT !.op = "pop", !.outcome = "ok", !.same = FALSE]
    /\ UNCHANGED not_state

NextState ==
    \/ \E id \in StoreIds, mode \in OnConflict : UpsertOne(id, mode)
    \/ \E job_id \in GivenIds, env \in EnvIds, st \in UpdateStates,
          comment \in Comments, on_fail \in OnFail, fault \in Faults :
          UpdateState(job_id, env, st, comment, on_fail, fault)
    \/ \E id \in StoreIds : DeleteRow(id)

SpecState == InitState /\ [][NextState]_vars

\* C21: store invariant.  Each id is in at most one row and the state of
\* every row is one of the twelve values of JobState.
C21_StoreInvariant ==
    \A rows \in {table, Rows(table, held)} :
        /\ \A i \in 1..Len(rows), j \in 1..Len(rows) : i # j => rows[i].id # rows[j].id
        /\ \A i \in 1..Len(rows) : rows[i].state \in JobStateValues

\* update_job_state has committed a state that is no value of JobState
C21_Witness ==
    /\ upd.op = "update"
    /\ upd.outcome = "ok"
    /\ held = <<>>
    /\ \E i \in 1..Len(table) : table[i].state = "done"

\* C22: per-job state machine.  A statement changes the state of a row only
\* along the state machine, and never moves a failed row to a state other
\* than queued.
C22_StateMachine ==
    upd.op \in {"update", "upsert"} => upd.legal /\ ~upd.left_failed

\* update_job_state has moved a failed row to running
C22_Witness ==
    /\ upd.op = "update"
    /\ upd.outcome = "ok"
    /\ upd.left_failed
    /\ StateOf(table, "j1") = <<"running">>

\* C23: state-update faults honour on_fail.  A failed update raises, warns
\* or returns silently as on_fail says and changes no row; a successful one
\* changes the addressed row only and creates or removes no row.
C23_OnFail ==
    upd.op = "update" =>
        /\ upd.failed =>
              /\ upd.on_fail = "raise" => upd.outcome = "raised"
              /\ upd.on_fail = "warn" => upd.outcome = "warned"
              /\ upd.on_fail = "ignore" => upd.outcome = "ignored"
              /\ upd.same
        /\ ~upd.failed => upd.outcome = "ok" /\ upd.framed

\* an update whose commit failed has warned and returned, and the connection
\* reads the new state
C23_Witness ==
    /\ upd.op = "update"
    /\ upd.failed
    /\ upd.outcome = "warned"
    /\ ~upd.same
    /\ held # <<>>
    /\ StateOf(held[1], "j1") # StateOf(table, "j1")

----------------------------------------------------------------------------
(* schedtools.interfaces.set_missing_alerts *)

\* the states of the tracked rows a pass meets
TrackedStates == {"queued", "running", "unsubmitted"}

\* the tracking table a pass meets: at most one row per id
TrackedTables ==
    {t \in UNION {[1..n -> [id : StrVals, state : TrackedStates, comment : {<<>>}]] :
                     n \in 0..Cardinality(StrVals)} :
        \A i \in 1..Len(t), j \in 1..Len(t) : i # j => t[i].id # t[j].id}

\* JobTrackingQueue.from_local: the JobSpecs of the rows of the local table
from_local(rows) == rows

\* Queue.filter_state, schemas.py lines 456-460
filter_state(jobs, st) == SelectSeq(jobs, LAMBDA j : j.state = st)

\* JobTrackingQueue.pull_updated: the job as the table has it now
pull_updated(rows, job) ==
    rows[CHOOSE i \in 1..Len(rows) : rows[i].id = job.id]

\* the JobSpec of a row as match_jobs sees it: it has an id and no scheduler_id
AsRecord(job) == Rec(<<job.id>>, <<>>, 0)

MissingComment == <<"Job not found in scheduler queue">>

\* mutant: the live queue is not looked at
alert_missing_all(rows, todo, scheduler_queue) ==
    [i \in 1..Len(rows) |->
        IF \E k \in 1..Len(todo) : todo[k].id = rows[i].id
        THEN [rows[i] EXCEPT !.state = "alert", !.comment = MissingComment]
        ELSE rows[i]]

\* the loop of set_missing_alerts, lines 17-31, over the queued jobs todo
RECURSIVE alert_missing(_, _, _)
alert_missing(rows, todo, scheduler_queue) ==
    IF todo = <<>> THEN rows
    ELSE LET job == pull_updated(rows, Head(todo))
         IN  IF ~contains(scheduler_queue, AsRecord(job))
             THEN alert_missing(update_rows(rows, job.id, "alert", MissingComment),
                                Tail(todo), scheduler_queue)
             ELSE alert_missing(rows, Tail(todo), scheduler_queue)

InitAlerts ==
    /\ SweepIdle
    /\ ClassifyIdle
    /\ DriverIdle
    /\ SchemaIdle
    /\ StoreIdle
    /\ StateIdle
    /\ LoopIdle
    /\ AdapterIdle
    /\ DedupIdle
    /\ IterIdle
    /\ UnsubIdle
    /\ TicksIdle
    /\ ShellIdle
    /\ RetryIdle
    /\ CachefileIdle
    /\ ProbeIdle
    /\ OnceIdle
    /\ RaceIdle
    /\ \E t \in TrackedTables, live \in ParsedQueues :
          ma = <<[tracked |-> t, live |-> live, done |-> FALSE, rows |-> t]>>

\* set_missing_alerts(), lines 11-31
SetMissingAlerts ==
    /\ ~ma[1].done
    /\ ma' = <<[ma[1] EXCEPT
                  !.done = TRUE,
                  !.rows = alert_missing(ma[1].tracked,
                                         filter_state(from_local(ma[1].tracked), "queued"),
                                         ma[1].live)]>>
    /\ UNCHANGED not_alerts

NextAlerts == SetMissingAlerts

SpecAlerts == InitAlerts /\ [][NextAlerts]_vars

\* the live queue holds a job with the id
LiveHasId(live, id) == \E k \in 1..Len(live) : live[k].id = <<id>>

----------------------------------------------------------------------------
(* schedtools.interfaces.rerun: the loop of the driver *)

(* With SYSTEMD_SERVICE set the driver calls rerun_jobs and sleeps in a     *)
(* while loop; otherwise rerun_jobs is an interval job of a                 *)
(* BlockingScheduler, which logs an exception of a job and keeps its        *)
(* schedule.  rerun_jobs logs and re-raises every exception.  The unit      *)
(* file written by make_service has Restart=always.                         *)
MaxRuns == 5

DriverModes == {"systemd", "timer"}

InitLoop ==
    /\ SweepIdle
    /\ ClassifyIdle
    /\ DriverIdle
    /\ SchemaIdle
    /\ StoreIdle
    /\ StateIdle
    /\ AlertsIdle
    /\ AdapterIdle
    /\ DedupIdle
    /\ IterIdle
    /\ UnsubIdle
    /\ TicksIdle
    /\ ShellIdle
    /\ RetryIdle
    /\ CachefileIdle
    /\ ProbeIdle
    /\ OnceIdle
    /\ RaceIdle
    /\ \E mode \in DriverModes :
          loop = <<[mode |-> mode, pc |-> "due", outcomes |-> <<>>, restarts |-> 0]>>

\* rerun_jobs returns: the driver sleeps for the interval (line 105), the
\* scheduler waits for the next run time
SweepReturns ==
    /\ loop[1].pc = "due"
    /\ Len(loop[1].outcomes) < MaxRuns
    /\ loop' = <<[loop[1] EXCEPT !.outcomes = Append(@, "ok"), !.pc = "sleeping"]>>
    /\ UNCHANGED not_loop

\* where the driver is after rerun_jobs has raised (jobs.py lines 200-202):
\* the exception leaves the while loop of lines 97-105 and the process ends;
\* the scheduler of lines 107-135 keeps running
after_raise(mode) == IF mode = "systemd" THEN "exited" ELSE "sleeping"

SweepRaises ==
    /\ loop[1].pc = "due"
    /\ Len(loop[1].outcomes) < MaxRuns
    /\ loop' = <<[loop[1] EXCEPT !.outcomes = Append(@, "raised"),
                                 !.pc = after_raise(loop[1].mode)]>>
    /\ UNCHANGED not_loop

\* the interval has passed
Wake ==
    /\ loop[1].pc = "sleeping"
    /\ loop' = <<[loop[1] EXCEPT !.pc = "due"]>>
    /\ UNCHANGED not_loop

\* systemd starts a new process (Restart=always), which sweeps at once
Restart ==
    /\ loop[1].pc = "exited"
    /\ loop' = <<[loop[1] EXCEPT !.pc = "due", !.restarts = @ + 1]>>
    /\ UNCHANGED not_loop

NextLoop == SweepReturns \/ SweepRaises \/ Wake \/ Restart

SpecLoop == InitLoop /\ [][NextLoop]_vars

\* C25: the supervisor survives a failing sweep.  In both modes the driver
\* process does not end because a sweep raised: after a sweep that raised it
\* waits for the interval, and it is never started anew.
C25_SurvivesFailingSweep ==
    \A n \in 1..Len(loop) :
        /\ loop[n].pc # "exited"
        /\ loop[n].restarts = 0

\* the driver run by systemd has ended with the first sweep that raised
C25_Witness ==
    /\ loop # <<>>
    /\ loop[1].mode = "systemd"
    /\ loop[1].pc = "exited"
    /\ loop[1].outcomes = <<"ok", "raised">>

----------------------------------------------------------------------------
(* schedtools.managers.PBS over the sweeps of one supervisor *)

MaxManagers == 2
MaxCalls == 2

\* the jobs handed to rerun_job: one from qstat, one tracked unsubmitted
AdapterJobs == {RunningJob("a", 9, 10, 0), unsubmitted("u")}

NoRerun ==
    [job |-> <<>>, res |-> "none", cmds |-> <<>>, nosuch |-> FALSE,
     denied_before |-> FALSE, denied_here |-> FALSE]

\* PBS(handler, logger): the instance starts from the class attribute
\* qrerun_allowed = True (line 153); rerun_job assigns self.qrerun_allowed
PBS(sweep, denied) ==
    [qrerun_allowed |-> TRUE, sweep |-> sweep, calls |-> 0, denied |-> denied,
     denied_here |-> FALSE, last |-> NoRerun]

Cmd(c, rc) == [cmd |-> c, rc |-> rc]

InCmds(cmds, c) == \E k \in 1..Len(cmds) : cmds[k] = c

IssuedCmd(cmds, name) == \E k \in 1..Len(cmds) : cmds[k].cmd = name

InitAdapter ==
    /\ SweepIdle
    /\ ClassifyIdle
    /\ DriverIdle
    /\ SchemaIdle
    /\ StoreIdle
    /\ StateIdle
    /\ AlertsIdle
    /\ LoopIdle
    /\ DedupIdle
    /\ IterIdle
    /\ UnsubIdle
    /\ TicksIdle
    /\ ShellIdle
    /\ RetryIdle
    /\ CachefileIdle
    /\ ProbeIdle
    /\ OnceIdle
    /\ RaceIdle
    /\ pbs = <<PBS(1, FALSE)>>

\* the next sweep of the supervisor: rerun_jobs line 150 asks
\* get_workload_manager for a manager, which builds a new PBS (line 325)
NewManager ==
    /\ pbs[1].sweep < MaxManagers
    /\ pbs' = <<PBS(pbs[1].sweep + 1, pbs[1].denied)>>
    /\ UNCHANGED not_adapter

\* manager.rerun_job(job), jobs.py line 170
RerunJob ==
    /\ pbs[1].calls < MaxCalls
    /\ \E job \in AdapterJobs, qr \in QrerunRcs, qs \in QsubRcs, nosuch \in BOOLEAN :
         LET r == rerun_job(job, pbs[1].qrerun_allowed, qr, qs, nosuch)
             d == InCmds(r.cmds, Cmd("qrerun", 159))
         IN  pbs' = <<[qrerun_allowed |-> r.allowed,
                       sweep |-> pbs[1].sweep,
                       calls |-> pbs[1].calls + 1,
                       denied |-> pbs[1].denied \/ d,
                       denied_here |-> pbs[1].denied_here \/ d,
                       last |-> [job |-> <<job>>, res |-> r.res, cmds |-> r.cmds,
                                 nosuch |-> nosuch /\ IssuedCmd(r.cmds, "qsub"),
                                 denied_before |-> pbs[1].denied,
                                 denied_here |-> pbs[1].denied_here]]>>
    /\ UNCHANGED not_adapter

NextAdapter == NewManager \/ RerunJob

SpecAdapter == InitAdapter /\ [][NextAdapter]_vars

\* C26: the qrerun fallback is permanent.  A call in which qrerun exits 159
\* leaves qrerun_allowed false and issues qsub; once a qrerun of the
\* supervisor has exited 159, qrerun_allowed is never true again and no
\* rerun_job issues qrerun, in this sweep or in a later one.
C26_FallbackPermanent ==
    \A n \in 1..Len(pbs) :
        /\ InCmds(pbs[n].last.cmds, Cmd("qrerun", 159)) =>
               ~pbs[n].qrerun_allowed /\ IssuedCmd(pbs[n].last.cmds, "qsub")
        /\ pbs[n].denied => ~pbs[n].qrerun_allowed
        /\ pbs[n].last.denied_before => ~IssuedCmd(pbs[n].last.cmds, "qrerun")

\* the second sweep's adapter issues qrerun although a qrerun of the first
\* sweep exited 159
C26_Witness ==
    /\ pbs # <<>>
    /\ pbs[1].sweep = 2
    /\ pbs[1].last.denied_before
    /\ IssuedCmd(pbs[1].last.cmds, "qrerun")

\* the exceptions of schedtools.exceptions that are JobSubmissionError
SubmissionErrors == {"error", "full", "missing"}

LastCmd(cmds) == cmds[Len(cmds)]

\* C27: error mapping of PBS.rerun_job.  The call returns normally only if
\* its last command exited 0; exit 38 of qrerun, and of a qsub whose stderr
\* does not name a missing script, raises QueueFullError; a failed qsub whose
\* stderr names a missing script raises MissingJobScriptError; any other
\* non-zero exit, apart from 159 of qrerun, raises a JobSubmissionError.
C27_ErrorMapping ==
    \A n \in 1..Len(pbs) :
        LET c == pbs[n].last
        IN  c.cmds # <<>> =>
            /\ c.res = "ok" => LastCmd(c.cmds).rc = 0
            /\ InCmds(c.cmds, Cmd("qrerun", 38)) => c.res = "full"
            /\ InCmds(c.cmds, Cmd("qsub", 38)) /\ ~c.nosuch => c.res = "full"
            /\ (\E k \in 1..Len(c.cmds) :
                    c.cmds[k].cmd = "qsub" /\ c.cmds[k].rc # 0) /\ c.nosuch
                   => c.res = "missing"
            /\ (\E k \in 1..Len(c.cmds) :
                    c.cmds[k].rc # 0 /\ c.cmds[k] # Cmd("qrerun", 159))
                   => c.res \in SubmissionErrors

\* qrerun exited 1 and the call returned normally after qsub
C27_Witness ==
    /\ pbs # <<>>
    /\ pbs[1].last.cmds = <<Cmd("qrerun", 1), Cmd("qsub", 0)>>
    /\ pbs[1].last.res = "ok"

----------------------------------------------------------------------------
(* schedtools.jobs.delete_queued_duplicates *)

MaxDupJobs == 3

DupIds == <<"d1", "d2", "d3", "d4">>

DupPaths == {"p", "q"}

DupPriorities == {0, 1}

\* a job of the listing: its id, state letter, priority and jobscript_path
DupJob(i, s, p, path) == [id |-> i, job_state |-> s, prio |-> <<p>>, path |-> path]

\* what get_jobs may list: jobs with distinct ids, queued or running
DupQueues ==
    UNION {{q \in [1..n -> {DupJob(i, s, p, path) :
                               i \in {DupIds[k] : k \in 1..MaxDupJobs},
                               s \in {"Q", "R"}, p \in DupPriorities,
                               path \in DupPaths}] :
              \A k \in 1..n : q[k].id = DupIds[k]} :
           n \in 0..MaxDupJobs}

is_queued(job) == status(job) = "queued"

\* the first loop (lines 109-115) without the test of line 110
RECURSIVE scan_all(_, _, _, _)
scan_all(jobs, count_running, waiting_scripts, duplicates) ==
    IF jobs = <<>> THEN duplicates
    ELSE LET job == Head(jobs)
         IN  IF job.path \in waiting_scripts
             THEN scan_all(Tail(jobs), count_running, waiting_scripts,
                           QueuePut(duplicates, job))
             ELSE scan_all(Tail(jobs), count_running,
                           waiting_scripts \cup {job.path}, duplicates)

\* the first loop, lines 109-115: the duplicates Queue it leaves
RECURSIVE scan(_, _, _, _)
scan(jobs, count_running, waiting_scripts, duplicates) ==
    IF jobs = <<>> THEN duplicates
    ELSE LET job == Head(jobs)
         IN  IF ~count_running /\ ~is_queued(job)
             THEN scan(Tail(jobs), count_running, waiting_scripts, duplicates)
             ELSE IF job.path \in waiting_scripts
             THEN scan(Tail(jobs), count_running, waiting_scripts,
                       QueuePut(duplicates, job))
             ELSE scan(Tail(jobs), count_running,
                       waiting_scripts \cup {job.path}, duplicates)

\* lines 119-122: `except JobDeletionError: pass`
OnDuplicateDeletionError == "continue"

InitDedup ==
    /\ SweepIdle
    /\ ClassifyIdle
    /\ DriverIdle
    /\ SchemaIdle
    /\ StoreIdle
    /\ StateIdle
    /\ AlertsIdle
    /\ LoopIdle
    /\ AdapterIdle
    /\ IterIdle
    /\ UnsubIdle
    /\ TicksIdle
    /\ ShellIdle
    /\ RetryIdle
    /\ CachefileIdle
    /\ ProbeIdle
    /\ OnceIdle
    /\ RaceIdle
    /\ \E jobs \in DupQueues, count_running \in BOOLEAN :
          dd = <<[jobs |-> jobs, count_running |-> count_running, pc |-> "scan",
                  duplicates |-> <<>>, issued |-> <<>>]>>

\* lines 107-115, and the start of the iteration of line 116
Scan ==
    /\ dd[1].pc = "scan"
    /\ LET duplicates == QueueIter(scan(dd[1].jobs, dd[1].count_running, {}, <<>>))
       IN  dd' = <<[dd[1] EXCEPT !.duplicates = duplicates,
                                 !.pc = IF duplicates = <<>> THEN "done" ELSE "delete"]>>
    /\ UNCHANGED not_dedup

\* lines 116-122: one turn of the loop over duplicates
DeleteDuplicate ==
    /\ dd[1].pc = "delete"
    /\ \E rc \in QdelRcs :
         LET job == Head(dd[1].duplicates)
             res == delete_job(rc)
             flow == IF res = "raise" THEN OnDuplicateDeletionError ELSE "continue"
         IN  dd' = <<[dd[1] EXCEPT
                        !.issued = Append(@, Entry("qdel", job.id, res)),
                        !.duplicates = Tail(@),
                        !.pc = IF flow # "continue" THEN "raised"
                               ELSE IF Tail(dd[1].duplicates) = <<>> THEN "done"
                               ELSE "delete"]>>
    /\ UNCHANGED not_dedup

NextDedup == Scan \/ DeleteDuplicate

SpecDedup == InitDedup /\ [][NextDedup]_vars

\* whether the job at position k of the listing takes part
Considered(d, k) == d.count_running \/ is_queued(d.jobs[k])

\* the job at position k follows a considered job with its jobscript_path
IsDuplicate(d, k) ==
    /\ Considered(d, k)
    /\ \E m \in 1..(k - 1) : Considered(d, m) /\ d.jobs[m].path = d.jobs[k].path

QdelCount(d, id) == Cardinality({n \in 1..Len(d.issued) : d.issued[n].id = id})

----------------------------------------------------------------------------
(* schedtools.core.Queue: iteration by priority *)

MaxIterLen == 3

IterIds == {"a", "b", "c"}

\* the "priority" key of a job: absent, or an explicit value
IterPriorities == {<<>>, <<UNSUBMITTED_PRIORITY>>, <<1>>}

\* jobs as dictionaries: a queued job of qstat, or a job without job_state
IterJobs ==
    {[id |-> i, job_state |-> s, prio |-> p] :
        i \in IterIds, s \in {"Q", "U"}, p \in IterPriorities}

InitIter ==
    /\ SweepIdle
    /\ ClassifyIdle
    /\ DriverIdle
    /\ SchemaIdle
    /\ StoreIdle
    /\ StateIdle
    /\ AlertsIdle
    /\ LoopIdle
    /\ AdapterIdle
    /\ DedupIdle
    /\ UnsubIdle
    /\ TicksIdle
    /\ ShellIdle
    /\ RetryIdle
    /\ CachefileIdle
    /\ ProbeIdle
    /\ OnceIdle
    /\ RaceIdle
    /\ it = <<[jobs |-> <<>>, iterated |-> FALSE, yielded |-> <<>>]>>

\* Queue.append(job), line 136
IterAppend ==
    /\ Len(it[1].jobs) < MaxIterLen \/ it[1].iterated
    /\ \E job \in IterJobs :
         /\ Len(QueuePut(it[1].jobs, job)) <= MaxIterLen
         /\ it' = <<[jobs |-> QueuePut(it[1].jobs, job), iterated |-> FALSE,
                     yielded |-> <<>>]>>
    /\ UNCHANGED not_iter

\* list(queue): Queue.__iter__, lines 147-149
Iterate ==
    /\ ~it[1].iterated
    /\ it' = <<[it[1] EXCEPT !.iterated = TRUE, !.yielded = QueueIter(it[1].jobs)]>>
    /\ UNCHANGED not_iter

NextIter == IterAppend \/ Iterate

SpecIter == InitIter /\ [][NextIter]_vars

Implicit(job) == job.prio = <<>>

\* C29: priority iteration.  An iteration yields every job of the Queue
\* once, in non-increasing priority; a job without the priority key has
\* priority -1 when it is unsubmitted and 0 otherwise, and such an
\* unsubmitted job is yielded after every submitted job without the key.
C29_PriorityIteration ==
    \A n \in 1..Len(it) :
        LET y == it[n].yielded
            q == it[n].jobs
        IN  it[n].iterated =>
            /\ Len(y) = Len(q)
            /\ \A k \in 1..Len(q) : \E m \in 1..Len(y) : y[m] = q[k]
            /\ \A a, b \in 1..Len(y) : a < b => priority(y[a]) >= priority(y[b])
            /\ \A a \in 1..Len(y) :
                 Implicit(y[a]) =>
                    priority(y[a]) = IF status(y[a]) = "unsubmitted" THEN -1 ELSE 0
            /\ \A a, b \in 1..Len(y) :
                 /\ Implicit(y[a]) /\ status(y[a]) = "unsubmitted"
                 /\ Implicit(y[b]) /\ status(y[b]) # "unsubmitted"
                 => b < a

\* an unsubmitted job appended first is yielded last, after a queued job
\* without the priority key and a job of priority 1 appended last
C29_Witness ==
    /\ it # <<>>
    /\ it[1].iterated
    /\ Len(it[1].jobs) = 3
    /\ Implicit(it[1].jobs[1]) /\ status(it[1].jobs[1]) = "unsubmitted"
    /\ Implicit(it[1].jobs[2]) /\ status(it[1].jobs[2]) = "queued"
    /\ it[1].jobs[3].prio = <<1>>
    /\ it[1].yielded = <<it[1].jobs[3], it[1].jobs[2], it[1].jobs[1]>>

----------------------------------------------------------------------------
(* schedtools.jobs: track_new_jobs followed by sweeps of rerun_jobs, on a
   scheduler that accepts every command *)

MaxUnsubSweeps == 4

\* lines 168-179 with qrerun exiting 0 for every candidate: the tracked
\* Queue after the loop, the jobs rerun, and whether the loop raised
RECURSIVE rerun_loop(_, _, _)
rerun_loop(q, cands, reran) ==
    IF cands = <<>> THEN [tracked |-> q, reran |-> reran, res |-> "returned"]
    ELSE LET job == Head(cands)
             r == rerun_job(job, TRUE, 0, 0, FALSE)
         IN  IF r.res = "ok"
             THEN rerun_loop(AfterRerun(q, job, r.res), Tail(cands),
                             reran \cup {job.id})
             ELSE IF r.res = "keyerror"
             THEN [tracked |-> q, reran |-> reran, res |-> "raised"]
             ELSE IF OnSubmissionError(r.res) = "break"
             THEN [tracked |-> q, reran |-> reran, res |-> "returned"]
             ELSE rerun_loop(q, Tail(cands), reran)

InitUnsub ==
    /\ SweepIdle
    /\ ClassifyIdle
    /\ DriverIdle
    /\ SchemaIdle
    /\ StoreIdle
    /\ StateIdle
    /\ AlertsIdle
    /\ LoopIdle
    /\ AdapterIdle
    /\ DedupIdle
    /\ IterIdle
    /\ TicksIdle
    /\ ShellIdle
    /\ RetryIdle
    /\ CachefileIdle
    /\ ProbeIdle
    /\ OnceIdle
    /\ RaceIdle
    /\ ut = <<[mirror |-> <<>>, added |-> FALSE, sweeps |-> 0, last |-> "none",
               view |-> <<>>, reran |-> {}]>>

\* track_new_jobs(handler, PBSJob.unsubmitted(path)), lines 63-75, the mirror
\* being readable and writable
TrackUnsubmitted ==
    /\ ~ut[1].added
    /\ \E i \in UnsubIds :
         LET new == QueueExtend(get_tracked_from_cluster("ok", ut[1].mirror),
                                <<unsubmitted(i)>>)
         IN  ut' = <<[ut[1] EXCEPT
                        !.mirror = MirrorAfterWrite(@, tracked_json(new), 0),
                        !.added = TRUE, !.last = "none", !.view = <<>>,
                        !.reran = {}]>>
    /\ UNCHANGED not_unsub

\* rerun_jobs, lines 145-202, with the mirror readable and writable, no
\* fallback cache, and qrerun and qdel exiting 0
UnsubSweep ==
    /\ ut[1].sweeps < MaxUnsubSweeps
    /\ \E live \in LiveQueues :
         LET view == TrackedView(get_tracked_from_cluster("ok", ut[1].mirror),
                                 get_tracked_cache(<<>>))
         IN  IF TailRaises(view, live)
             THEN ut' = <<[ut[1] EXCEPT !.sweeps = @ + 1, !.last = "raised",
                                        !.view = view, !.reran = {}]>>
             ELSE \E tails \in [Tailed(view, live) -> Tails] :
                  LET cands == QueueIter(Candidates(view, live, tails, threshold))
                      out == rerun_loop(UpdateTracked(view, live), cands, {})
                  IN  ut' = <<[ut[1] EXCEPT
                                 !.sweeps = @ + 1,
                                 !.last = out.res,
                                 !.view = view,
                                 !.reran = out.reran,
                                 !.mirror = IF out.res = "returned"
                                            THEN MirrorAfterWrite(@, tracked_json(out.tracked), 0)
                                            ELSE @]>>
    /\ UNCHANGED not_unsub

NextUnsub == TrackUnsubmitted \/ UnsubSweep

SpecUnsub == InitUnsub /\ [][NextUnsub]_vars

\* C30: unsubmitted tracked jobs are submitted.  On a scheduler that accepts
\* every submission, a sweep whose tracked view holds an unsubmitted job
\* returns, has submitted that job, and leaves it out of the mirror.
C30_UnsubmittedSubmitted ==
    \A n \in 1..Len(ut) :
        ut[n].last # "none" =>
            \A k \in 1..Len(ut[n].view) :
                status(ut[n].view[k]) = "unsubmitted" =>
                    /\ ut[n].last = "returned"
                    /\ ut[n].view[k].id \in ut[n].reran
                    /\ ~QueueContains(ut[n].mirror, ut[n].view[k].id)

\* the last sweep ran over a mirror that holds the unsubmitted job: it has
\* raised, and the job is still in the mirror
C30_Witness ==
    /\ ut # <<>>
    /\ ut[1].added
    /\ ut[1].sweeps = MaxUnsubSweeps
    /\ ut[1].last = "raised"
    /\ \E k \in 1..Len(ut[1].mirror) : status(ut[1].mirror[k]) = "unsubmitted"
    /\ ut[1].mirror = QueueIter(ut[1].view)

----------------------------------------------------------------------------
(* Order of the reruns within one sweep *)

\* the rerun_job attempts of the sweep, in the order of the calls
RerunSeq == SelectSeq(log, LAMBDA e : e.op = "rerun")

IsCandidate(job) == \E k \in 1..Len(seen.cands) : seen.cands[k].id = job.id

\* the candidates in the order of entry: those of the tracked view in the
\* order of the view, then those of the live queue in the order of the listing
EntryOrder ==
    SelectSeq(seen.view, LAMBDA j : ~QueueContains(queued, j.id) /\ IsCandidate(j))
    \o SelectSeq(queued, LAMBDA j : IsCandidate(j))

----------------------------------------------------------------------------
(* schedtools.interfaces.rerun: invocations of rerun_jobs in flight *)

MaxEvents == 7

\* the scheduler's limit of concurrent instances of one job: add_job (line
\* 108) passes no max_instances, so the scheduler's default applies
max_instances == 1

\* mutant: the scheduler starts an instance at every tick
may_submit_always(instances) == TRUE

\* whether the scheduler's executor starts the job at a tick
may_submit(instances) == instances < max_instances

InitTicks ==
    /\ SweepIdle
    /\ ClassifyIdle
    /\ DriverIdle
    /\ SchemaIdle
    /\ StoreIdle
    /\ StateIdle
    /\ AlertsIdle
    /\ LoopIdle
    /\ AdapterIdle
    /\ DedupIdle
    /\ IterIdle
    /\ UnsubIdle
    /\ ShellIdle
    /\ RetryIdle
    /\ CachefileIdle
    /\ ProbeIdle
    /\ OnceIdle
    /\ RaceIdle
    /\ \E mode \in DriverModes :
          sch = <<[mode |-> mode, pc |-> "due", instances |-> 0, events |-> <<>>]>>

\* line 98: the while loop calls rerun_jobs
LoopCall ==
    /\ sch[1].mode = "systemd"
    /\ sch[1].pc = "due"
    /\ Len(sch[1].events) < MaxEvents
    /\ sch' = <<[sch[1] EXCEPT !.pc = "in_sweep", !.instances = @ + 1,
                               !.events = Append(@, "start")]>>
    /\ UNCHANGED not_ticks

\* lines 98-105: rerun_jobs returns and the loop sleeps, or rerun_jobs raises
\* and the loop is left
LoopCallEnds ==
    /\ sch[1].mode = "systemd"
    /\ sch[1].pc = "in_sweep"
    /\ \E outcome \in {"ok", "raised"} :
         sch' = <<[sch[1] EXCEPT
                     !.pc = IF outcome = "ok" THEN "sleeping" ELSE after_raise(sch[1].mode),
                     !.instances = @ - 1,
                     !.events = Append(@, outcome)]>>
    /\ UNCHANGED not_ticks

\* line 105: time.sleep returns
LoopWake ==
    /\ sch[1].mode = "systemd"
    /\ sch[1].pc = "sleeping"
    /\ sch' = <<[sch[1] EXCEPT !.pc = "due"]>>
    /\ UNCHANGED not_ticks

\* lines 108-135: a run time of the interval job comes, whether or not an
\* earlier instance is still running
Tick ==
    /\ sch[1].mode = "timer"
    /\ Len(sch[1].events) < MaxEvents
    /\ sch' = <<[sch[1] EXCEPT
                   !.instances = IF may_submit(@) THEN @ + 1 ELSE @,
                   !.events = Append(@, IF may_submit(sch[1].instances)
                                        THEN "start" ELSE "skipped")]>>
    /\ UNCHANGED not_ticks

\* an instance of the interval job returns or raises
JobEnds ==
    /\ sch[1].mode = "timer"
    /\ sch[1].instances > 0
    /\ \E outcome \in {"ok", "raised"} :
         sch' = <<[sch[1] EXCEPT !.instances = @ - 1,
                                 !.events = Append(@, outcome)]>>
    /\ UNCHANGED not_ticks

NextTicks == LoopCall \/ LoopCallEnds \/ LoopWake \/ Tick \/ JobEnds

SpecTicks == InitTicks /\ [][NextTicks]_vars

\* C32: at most one sweep in flight.  In both modes a driver never has two
\* invocations of rerun_jobs in flight: every start but the first follows the
\* end of the invocation before it.
C32_OneSweepInFlight ==
    \A n \in 1..Len(sch) :
        /\ sch[n].instances <= 1
        /\ \A k \in 2..Len(sch[n].events) :
             sch[n].events[k] = "start" =>
                 \E m \in 1..(k - 1) :
                     /\ sch[n].events[m] \in {"ok", "raised"}
                     /\ \A i \in (m + 1)..(k - 1) : sch[n].events[i] # "start"

\* the interval scheduler has skipped a run time that came during a sweep,
\* and started the next sweep after that sweep had returned
C32_Witness ==
    /\ sch # <<>>
    /\ sch[1].mode = "timer"
    /\ sch[1].events = <<"start", "skipped", "ok", "start">>
    /\ sch[1].instances = 1

----------------------------------------------------------------------------
(* schedtools.shell_handler.ShellHandler.execute *)

MaxExecs == 2
MaxOut == 2

ExitCodes == {0, 1}

\* a line of the channel: the call whose command produced it, what it starts
\* with and what it holds as far as execute tests it (the command, the echo
\* command, the finish text), and the status that ends a finish line
Line(k, starts, holds, rc) == [of |-> k, starts |-> starts, holds |-> holds, rc |-> rc]

\* the shell's echo of a typed line: behind the prompt, or bare when the
\* prompt is empty
EchoLine(k, what, prompted) == Line(k, IF prompted THEN "other" ELSE what, what, 0)

\* what a command may print: ordinary lines, and lines that start with the
\* finish text followed by a number (the tail of a log of such a session)
OutLines(k) ==
    {Line(k, "other", "none", 0)} \cup {Line(k, "finish", "none", rc) : rc \in ExitCodes}

Outputs(k) == UNION {[1..n -> OutLines(k)] : n \in 0..MaxOut}

\* the lines the shell sends for one execute: the echo of the command, its
\* output, the echo of the echo command, and the line that echo prints
Sent(k, out, rc, prompted) ==
    <<EchoLine(k, "cmd", prompted)>> \o out
    \o <<EchoLine(k, "echo_cmd", prompted), Line(k, "finish", "none", rc)>>

\* lines 128-147: the loop over self.stdout
RECURSIVE read_loop(_, _)
read_loop(stream, shout) ==
    IF stream = <<>>
    THEN [ended |-> FALSE, exit_status |-> 0, shout |-> shout, sherr |-> <<>>,
          rest |-> <<>>]
    ELSE LET line == Head(stream)
         IN  IF line.starts \in {"cmd", "echo_cmd"}
             THEN read_loop(Tail(stream), <<>>)
             ELSE IF line.starts = "finish"
             THEN [ended |-> TRUE, exit_status |-> line.rc,
                   shout |-> IF line.rc # 0 THEN <<>> ELSE shout,
                   sherr |-> IF line.rc # 0 THEN shout ELSE <<>>,
                   rest |-> Tail(stream)]
             ELSE read_loop(Tail(stream), Append(shout, line))

\* lines 149-157: the prompt lines are taken off both lists
strip_prompts(lines) ==
    LET a == IF lines # <<>> /\ lines[Len(lines)].holds = "echo_cmd"
             THEN SubSeq(lines, 1, Len(lines) - 1) ELSE lines
    IN  IF a # <<>> /\ a[1].holds = "cmd" THEN Tail(a) ELSE a

\* lines 117-158 for a command that is not empty
execute(stream) ==
    LET r == read_loop(stream, <<>>)
    IN  [ended |-> r.ended, returncode |-> r.exit_status,
         stdout |-> strip_prompts(r.shout), stderr |-> strip_prompts(r.sherr),
         rest |-> r.rest]

InitShell ==
    /\ SweepIdle
    /\ ClassifyIdle
    /\ DriverIdle
    /\ SchemaIdle
    /\ StoreIdle
    /\ StateIdle
    /\ AlertsIdle
    /\ LoopIdle
    /\ AdapterIdle
    /\ DedupIdle
    /\ IterIdle
    /\ UnsubIdle
    /\ TicksIdle
    /\ RetryIdle
    /\ CachefileIdle
    /\ ProbeIdle
    /\ OnceIdle
    /\ RaceIdle
    /\ \E prompted \in BOOLEAN :
          sh = <<[prompted |-> prompted, written |-> 0, unread |-> <<>>,
                  results |-> <<>>]>>

\* execute(cmd) with a command that is not empty, on a shell that runs it
\* with the given output and exit status
Execute ==
    /\ Len(sh[1].results) < MaxExecs
    /\ \E out \in Outputs(sh[1].written + 1), rc \in ExitCodes :
         LET k == sh[1].written + 1
             r == execute(sh[1].unread \o Sent(k, out, rc, sh[1].prompted))
         IN  sh' = <<[sh[1] EXCEPT
                        !.written = k,
                        !.unread = r.rest,
                        !.results = Append(@, [call |-> k, raised |-> "none", ran |-> rc,
                                               returncode |-> r.returncode,
                                               stdout |-> r.stdout,
                                               stderr |-> r.stderr])]>>
    /\ UNCHANGED not_shell

\* execute(""), lines 117-118
ExecuteEmpty ==
    /\ Len(sh[1].results) < MaxExecs
    /\ sh' = <<[sh[1] EXCEPT
                  !.results = Append(@, [call |-> 0, raised |-> "ValueError", ran |-> 0,
                                         returncode |-> 0, stdout |-> <<>>,
                                         stderr |-> <<>>])]>>
    /\ UNCHANGED not_shell

NextShell == Execute \/ ExecuteEmpty

SpecShell == InitShell /\ [][NextShell]_vars

FromCall(lines, k) == \A n \in 1..Len(lines) : lines[n].of = k

\* C33: command fencing.  Every result of a command that is not empty carries
\* the exit status its own command ended with and only lines that command
\* produced; a non-zero status comes with empty stdout, status 0 with empty
\* stderr; an empty command raises ValueError and writes nothing.
C33_CommandFencing ==
    \A n \in 1..Len(sh) :
        \A k \in 1..Len(sh[n].results) :
            LET r == sh[n].results[k]
            IN  IF r.raised = "none"
                THEN /\ r.returncode = r.ran
                     /\ FromCall(r.stdout, r.call)
                     /\ FromCall(r.stderr, r.call)
                     /\ r.returncode # 0 => r.stdout = <<>>
                     /\ r.returncode = 0 => r.stderr = <<>>
                ELSE r.call = 0 /\ r.raised = "ValueError"

\* the first command printed a finish line of its own and exited 1: its
\* result carries status 0, and the result of the second command carries the
\* first command's status and the first command's echo line
C33_Witness ==
    /\ sh # <<>>
    /\ sh[1].prompted
    /\ Len(sh[1].results) = 2
    /\ sh[1].results[1].ran = 1
    /\ sh[1].results[1].returncode = 0
    /\ sh[1].results[2].ran = 0
    /\ sh[1].results[2].returncode = 1
    /\ \E m \in 1..Len(sh[1].results[2].stderr) : sh[1].results[2].stderr[m].of = 1

----------------------------------------------------------------------------
(* schedtools.utils.retry_on *)

MaxTries == 8

\* @retry_on(json.decoder.JSONDecodeError, max_tries=5) on
\* get_tracked_from_cluster
TRACKED_MAX_TRIES == 5

\* how one invocation of the wrapped function ends: it returns, raises the
\* exception retried upon, or raises another exception
Outcomes == {"value", "E", "other"}

\* mutant: the retry count is tested one turn late
after_E_late(i, max_tries, disabled) ==
    IF disabled THEN "raise E"
    ELSE IF i = max_tries THEN "raise RetryError"
    ELSE "retry"

\* lines 164-177: what the wrapper does when turn i (from 0) raised E and
\* allow(e) holds
after_E(i, max_tries, disabled) ==
    IF disabled THEN "raise E"
    ELSE IF i = max_tries - 1 THEN "raise RetryError"
    ELSE "retry"

InitRetry ==
    /\ SweepIdle
    /\ ClassifyIdle
    /\ DriverIdle
    /\ SchemaIdle
    /\ StoreIdle
    /\ StateIdle
    /\ AlertsIdle
    /\ LoopIdle
    /\ AdapterIdle
    /\ DedupIdle
    /\ IterIdle
    /\ UnsubIdle
    /\ TicksIdle
    /\ ShellIdle
    /\ CachefileIdle
    /\ ProbeIdle
    /\ OnceIdle
    /\ RaceIdle
    /\ \E n \in 1..MaxTries, disabled \in BOOLEAN :
          rt = <<[max_tries |-> n, disabled |-> disabled, invoked |-> <<>>,
                  ended |-> "no"]>>

\* one turn of the loop of lines 160-177
Invoke ==
    /\ rt[1].ended = "no"
    /\ Len(rt[1].invoked) < rt[1].max_tries
    /\ \E o \in Outcomes :
         LET i == Len(rt[1].invoked)
             step == IF o = "E" THEN after_E(i, rt[1].max_tries, rt[1].disabled)
                     ELSE IF o = "value" THEN "return" ELSE "raise other"
         IN  rt' = <<[rt[1] EXCEPT !.invoked = Append(@, o),
                                   !.ended = IF step = "retry" THEN "no" ELSE step]>>
    /\ UNCHANGED not_retry

NextRetry == Invoke

SpecRetry == InitRetry /\ [][NextRetry]_vars

AllE(s, n) == \A k \in 1..n : s[k] = "E"

\* C34: bounded retry.  The wrapped function is invoked at most max_tries
\* times (at most 5 times for get_tracked_from_cluster); every invocation but
\* the last raised E; the call returns with the first invocation that does
\* not raise, ends with RetryError exactly after max_tries invocations that
\* raised E, re-raises E after one invocation when DISABLE_RETRY is set, and
\* lets another exception through at once.
C34_BoundedRetry ==
    \A n \in 1..Len(rt) :
        LET r == rt[n]
            c == Len(r.invoked)
        IN  /\ c <= r.max_tries
            /\ r.max_tries = TRACKED_MAX_TRIES => c <= 5
            /\ AllE(r.invoked, c - 1)
            /\ r.ended = "no" =>
                   AllE(r.invoked, c) /\ c < r.max_tries /\ (c > 0 => ~r.disabled)
            /\ r.ended = "return" => r.invoked[c] = "value"
            /\ r.ended = "raise other" => r.invoked[c] = "other"
            /\ r.ended = "raise RetryError" =>
                   c = r.max_tries /\ AllE(r.invoked, c) /\ ~r.disabled
            /\ r.ended = "raise E" => c = 1 /\ r.invoked[1] = "E" /\ r.disabled
            /\ r.disabled /\ c > 0 => r.ended # "no" /\ c = 1

\* the mirror was unreadable five times: the call ends with RetryError
C34_Witness ==
    /\ rt # <<>>
    /\ rt[1].max_tries = TRACKED_MAX_TRIES
    /\ Len(rt[1].invoked) = 5
    /\ rt[1].ended = "raise RetryError"

----------------------------------------------------------------------------
(* schedtools.jobs: the local fallback cache file *)

MaxCacheWrites == 2

\* the payloads (tracked_json) that are written, and the number of pieces in
\* which a payload reaches the file
Payloads == {"A", "B"}

Pieces == 2

NoFile == <<>>

\* open(RERUN_TRACKED_CACHE, "w"), line 191: the file exists and is empty
opened(payload) == <<[payload |-> payload, pieces |-> 0]>>

Complete(file) == file # NoFile /\ file[1].pieces = Pieces

\* get_tracked_cache, lines 78-84: json.load of the file when it exists
load_cache(file) ==
    IF file = NoFile THEN "empty Queue"
    ELSE IF Complete(file) THEN "loaded"
    ELSE "JSONDecodeError"

InitCachefile ==
    /\ SweepIdle
    /\ ClassifyIdle
    /\ DriverIdle
    /\ SchemaIdle
    /\ StoreIdle
    /\ StateIdle
    /\ AlertsIdle
    /\ LoopIdle
    /\ AdapterIdle
    /\ DedupIdle
    /\ IterIdle
    /\ UnsubIdle
    /\ TicksIdle
    /\ ShellIdle
    /\ RetryIdle
    /\ ProbeIdle
    /\ OnceIdle
    /\ RaceIdle
    /\ cf = <<[file |-> NoFile, last |-> NoFile, writing |-> FALSE, alive |-> TRUE,
               writes |-> 0, crashes |-> 0, read |-> "none"]>>

\* lines 186-191: the mirror write failed; the cache file is opened for writing
OpenCache ==
    /\ cf[1].alive /\ ~cf[1].writing
    /\ cf[1].writes < MaxCacheWrites
    /\ \E p \in Payloads :
         cf' = <<[cf[1] EXCEPT !.file = opened(p), !.writing = TRUE,
                               !.writes = @ + 1]>>
    /\ UNCHANGED not_cachefile

\* line 192 and the end of the with block: a piece of the payload reaches the file
WritePiece ==
    /\ cf[1].alive /\ cf[1].writing
    /\ LET file == <<[cf[1].file[1] EXCEPT !.pieces = @ + 1]>>
       IN  cf' = <<[cf[1] EXCEPT !.file = file,
                                 !.writing = ~Complete(file),
                                 !.last = IF Complete(file) THEN file ELSE @]>>
    /\ UNCHANGED not_cachefile

\* lines 196-199: the mirror write succeeded; an existing cache file is removed
RemoveCache ==
    /\ cf[1].alive /\ ~cf[1].writing
    /\ cf[1].file # NoFile
    /\ cf' = <<[cf[1] EXCEPT !.file = NoFile, !.last = NoFile]>>
    /\ UNCHANGED not_cachefile

\* the supervisor stops (killed, host down), at any point
Crash ==
    /\ cf[1].alive
    /\ cf[1].crashes < MaxCacheWrites
    /\ cf' = <<[cf[1] EXCEPT !.alive = FALSE, !.writing = FALSE, !.crashes = @ + 1]>>
    /\ UNCHANGED not_cachefile

\* the next sweep, of this supervisor or of the one started after a crash:
\* line 155 calls get_tracked_cache
ReadCache ==
    /\ ~cf[1].writing
    /\ cf' = <<[cf[1] EXCEPT !.alive = TRUE, !.read = load_cache(cf[1].file)]>>
    /\ UNCHANGED not_cachefile

NextCachefile == OpenCache \/ WritePiece \/ RemoveCache \/ Crash \/ ReadCache

SpecCachefile == InitCachefile /\ [][NextCachefile]_vars

\* C35: atomic fallback cache.  At every instant the cache file is absent or
\* holds a complete payload, the previous one or the new one, and
\* get_tracked_cache never meets a partly written payload.
C35_AtomicCache ==
    \A n \in 1..Len(cf) :
        /\ cf[n].file = NoFile \/ Complete(cf[n].file)
        /\ cf[n].writing => cf[n].file = cf[n].last
        /\ cf[n].read # "JSONDecodeError"

\* the supervisor stopped after the first piece of a payload; the sweep that
\* followed met the partly written file
C35_Witness ==
    /\ cf # <<>>
    /\ cf[1].crashes = 1
    /\ cf[1].file # NoFile
    /\ cf[1].file[1].pieces = 1
    /\ cf[1].read = "JSONDecodeError"


(***************************************************************************)
(* schedtools.managers.get_workload_manager, step by step: every probe is    *)
(* one execution of an adapter's list_jobs_cmd on the channel.              *)
(***************************************************************************)

MaxProbeCalls == 3

\* the adapters in the order of the for loop (line 323)
Adapters == <<"PBS", "SLURM">>

\* what one execution of list_jobs_cmd can do: exit with a status, or raise a
\* RecursionError out of the channel (the exception is_valid is retried on)
ProbeOutcomes ==
    {<<"exit", rc>> : rc \in ProbeRcs} \cup {<<"RecursionError", 0>>}

IS_VALID_MAX_TRIES == 2

InitProbe ==
    /\ SweepIdle
    /\ ClassifyIdle
    /\ DriverIdle
    /\ SchemaIdle
    /\ StoreIdle
    /\ StateIdle
    /\ AlertsIdle
    /\ LoopIdle
    /\ AdapterIdle
    /\ DedupIdle
    /\ IterIdle
    /\ UnsubIdle
    /\ TicksIdle
    /\ ShellIdle
    /\ RetryIdle
    /\ CachefileIdle
    /\ OnceIdle
    /\ RaceIdle
    /\ pb = <<[calls |-> 0, probed |-> <<>>, at |-> 1, tries |-> 0,
               returned |-> "idle", past |-> <<>>]>>

\* get_workload_manager is called (lines 313-322)
GetWorkloadManager ==
    /\ pb[1].returned # "none"
    /\ pb[1].calls < MaxProbeCalls
    /\ pb' = <<[calls |-> pb[1].calls + 1, probed |-> <<>>, at |-> 1, tries |-> 0,
                returned |-> "none",
                past |-> IF pb[1].calls = 0 THEN <<>>
                         ELSE Append(pb[1].past, <<pb[1].probed, pb[1].returned>>)]>>
    /\ UNCHANGED not_probe

\* lines 323-325 with is_valid (44-55) under retry_on(RecursionError, max_tries=2)
ProbeAdapter ==
    /\ pb[1].returned = "none"
    /\ pb[1].at <= Len(Adapters)
    /\ \E out \in ProbeOutcomes :
         LET p == pb[1]
             man_cls == Adapters[p.at]
             probed == Append(p.probed, <<man_cls, out[1], out[2]>>)
             valid == is_valid(out[2])
         IN  IF out[1] = "RecursionError"
             THEN LET ended == after_E(p.tries, IS_VALID_MAX_TRIES, FALSE)
                  IN  pb' = <<[p EXCEPT !.probed = probed,
                                        !.tries = p.tries + 1,
                                        !.returned = IF ended = "no" THEN "none" ELSE ended]>>
             ELSE pb' = <<[p EXCEPT !.probed = probed,
                                    !.tries = 0,
                                    !.at = IF valid = "invalid" THEN p.at + 1 ELSE p.at,
                                    !.returned = IF valid = "valid" THEN man_cls
                                                 ELSE IF valid = "raise" THEN "RuntimeError"
                                                 ELSE "none"]>>
    /\ UNCHANGED not_probe

\* lines 326-328: no adapter was valid
NoManager ==
    /\ pb[1].returned = "none"
    /\ pb[1].at > Len(Adapters)
    /\ pb' = <<[pb[1] EXCEPT !.returned = "RuntimeError"]>>
    /\ UNCHANGED not_probe

NextProbe == GetWorkloadManager \/ ProbeAdapter \/ NoManager

SpecProbe == InitProbe /\ [][NextProbe]_vars

\* the probes of one call that ended with an exit status, as <<adapter, status>>
RECURSIVE ExitsOf(_)
ExitsOf(probed) ==
    IF probed = <<>> THEN <<>>
    ELSE IF Head(probed)[2] = "exit"
         THEN <<<<Head(probed)[1], Head(probed)[3]>>>> \o ExitsOf(Tail(probed))
         ELSE ExitsOf(Tail(probed))

MaxOnceSweeps == 3

\* the tracked job: it ran, was killed and has left the live queue
KilledJob == RunningJob("c", 8, 10, 0)

\* what qstat may list in a sweep: nothing, or the job back in the queue
OnceLive == {<<>>, <<RunningJob("c", 8, 10, 0)>>, <<RunningJob("c", 9, 10, 0)>>}

InitOnce ==
    /\ SweepIdle
    /\ ClassifyIdle
    /\ DriverIdle
    /\ SchemaIdle
    /\ StoreIdle
    /\ StateIdle
    /\ AlertsIdle
    /\ LoopIdle
    /\ AdapterIdle
    /\ DedupIdle
    /\ IterIdle
    /\ UnsubIdle
    /\ TicksIdle
    /\ ShellIdle
    /\ RetryIdle
    /\ CachefileIdle
    /\ ProbeIdle
    /\ RaceIdle
    /\ ao = <<[mirror |-> <<KilledJob>>, cache |-> <<>>, pc |-> "idle",
               queued |-> <<>>, tracked |-> <<>>, to_rerun |-> <<>>,
               sweeps |-> 0, wrote |-> "none",
               reran |-> {}, again |-> {}]>>

\* lines 143-166: live queue, tracked view, candidates, tracked := view + live
OnceClassify ==
    /\ ao[1].pc = "idle"
    /\ ao[1].sweeps < MaxOnceSweeps
    /\ \E live \in OnceLive :
         LET a == ao[1]
             view == TrackedView(get_tracked_from_cluster("ok", a.mirror),
                                 get_tracked_cache(a.cache))
         IN  \E tails \in [Tailed(view, live) -> {"none", "walltime"}] :
               LET cands == QueueIter(Candidates(view, live, tails, threshold))
               IN  ao' = <<[a EXCEPT !.queued = live,
                                     !.tracked = UpdateTracked(view, live),
                                     !.to_rerun = cands,
                                     !.sweeps = a.sweeps + 1,
                                     !.wrote = "none",
                                     !.reran = a.reran \ Ids(live),
                                     !.pc = IF cands = <<>> THEN "persist" ELSE "rerun"]>>
    /\ UNCHANGED not_once

\* lines 168-179: one turn of the loop over to_rerun
OnceRerun ==
    /\ ao[1].pc = "rerun"
    /\ ao[1].to_rerun # <<>>
    /\ \E qr \in SweepQrerunRcs, qs \in QsubRcs, nosuch \in BOOLEAN, drc \in QdelRcs :
         LET a == ao[1]
             job == Head(a.to_rerun)
             r == rerun_job(job, TRUE, qr, qs, nosuch)
             del == r.res = "ok" /\ DeleteWanted(job, a.queued, FALSE)
             flow == IF r.res = "ok"
                     THEN IF del /\ delete_job(drc) = "raise" THEN OnDeletionError
                          ELSE "continue"
                     ELSE OnSubmissionError(r.res)
         IN  ao' = <<[a EXCEPT !.tracked = AfterRerun(a.tracked, job, r.res),
                               !.to_rerun = Tail(a.to_rerun),
                               !.reran = IF r.res = "ok" THEN a.reran \cup {job.id}
                                         ELSE a.reran,
                               !.again = IF r.res = "ok" /\ job.id \in a.reran
                                         THEN a.again \cup {job.id} ELSE a.again,
                               !.pc = IF flow = "raise" THEN "idle"
                                      ELSE IF flow = "break" \/ Tail(a.to_rerun) = <<>>
                                      THEN "persist" ELSE "rerun"]>>
    /\ UNCHANGED not_once

\* lines 181-199: the mirror write and the fallback cache
OncePersist ==
    /\ ao[1].pc = "persist"
    /\ \E rc \in WriteRcs :
         LET a == ao[1]
             payload == tracked_json(a.tracked)
         IN  ao' = <<[a EXCEPT !.mirror = MirrorAfterWrite(a.mirror, payload, rc),
                               !.cache = CacheAfterWrite(a.cache, payload, rc),
                               !.wrote = IF rc = 0 THEN "ok" ELSE "fail",
                               !.pc = "idle"]>>
    /\ UNCHANGED not_once

\* the supervisor is stopped after the loop and before the mirror write
\* (a signal between lines 179 and 182); it is started again later
OnceStop ==
    /\ ao[1].pc = "persist"
    /\ ao' = <<[ao[1] EXCEPT !.pc = "idle", !.wrote = "stopped"]>>
    /\ UNCHANGED not_once

NextOnce == OnceClassify \/ OnceRerun \/ OncePersist \/ OnceStop

SpecOnce == InitOnce /\ [][NextOnce]_vars

\* C37: a job that a sweep reran successfully and untracked is not rerun by a
\* later sweep unless the live queue has listed it in between, whether the
\* mirror write of the first sweep failed or the supervisor stopped before it
C37_AtMostOnceRerun ==
    ao # <<>> => ao[1].again = {}

\* the job was rerun by sweep 1, whose mirror write failed, and rerun once
\* more by sweep 2 without having been in the live queue
C37_Witness ==
    /\ ao # <<>>
    /\ ao[1].sweeps = 2
    /\ ao[1].again = {"c"}
    /\ ao[1].cache = << <<>> >>
    /\ ao[1].mirror = <<KilledJob>>


(***************************************************************************)
(* One client call of track_new_jobs and one sweep of rerun_jobs on the      *)
(* same mirror file.  Each of them reads the file with one command and       *)
(* writes it with another; the commands of the two callers interleave.       *)
(***************************************************************************)

\* the mirror before the two calls: absent, or listing a killed job
RaceMirrors == {<<>>, <<KilledJob>>}

\* the job the client tracks
NewJobs == {QueuedJob("u", 10), unsubmitted("u")}

\* outcomes of `cat $HOME/.rerun-tracked.json`: the content, or a non-zero
\* exit / empty output
ReadOutcomes == {"ok", "empty"}

CacheIds(file) == Ids(get_tracked_cache(file))

InitRace ==
    /\ SweepIdle
    /\ ClassifyIdle
    /\ DriverIdle
    /\ SchemaIdle
    /\ StoreIdle
    /\ StateIdle
    /\ AlertsIdle
    /\ LoopIdle
    /\ AdapterIdle
    /\ DedupIdle
    /\ IterIdle
    /\ UnsubIdle
    /\ TicksIdle
    /\ ShellIdle
    /\ RetryIdle
    /\ CachefileIdle
    /\ ProbeIdle
    /\ OnceIdle
    /\ \E first \in RaceMirrors, new \in NewJobs :
         rw = <<[first |-> first, mirror |-> first, cache |-> <<>>,
                 spc |-> "idle", tracked |-> <<>>, to_rerun |-> <<>>, reran |-> {},
                 cpc |-> "idle", ctracked |-> <<>>, new |-> new,
                 misread |-> FALSE]>>

\* rerun_jobs, lines 143-166 (the live queue is empty)
RaceClassify ==
    /\ rw[1].spc = "idle"
    /\ \E rd \in ReadOutcomes :
         LET r == rw[1]
             view == TrackedView(get_tracked_from_cluster(rd, r.mirror),
                                 get_tracked_cache(r.cache))
             misread == r.misread \/ (rd = "empty" /\ r.mirror # <<>>)
         IN  IF TailRaises(view, <<>>)
             THEN rw' = <<[r EXCEPT !.spc = "raised", !.misread = misread]>>
             ELSE \E tails \in [Tailed(view, <<>>) -> {"none", "walltime"}] :
                    LET cands == QueueIter(Candidates(view, <<>>, tails, threshold))
                    IN  rw' = <<[r EXCEPT !.tracked = UpdateTracked(view, <<>>),
                                          !.to_rerun = cands,
                                          !.misread = misread,
                                          !.spc = IF cands = <<>> THEN "persist"
                                                  ELSE "rerun"]>>
    /\ UNCHANGED not_race

\* rerun_jobs, lines 168-179: one turn of the loop (no job is live, so no qdel)
RaceRerun ==
    /\ rw[1].spc = "rerun"
    /\ rw[1].to_rerun # <<>>
    /\ \E qr \in SweepQrerunRcs, qs \in QsubRcs, nosuch \in BOOLEAN :
         LET r == rw[1]
             job == Head(r.to_rerun)
             res == rerun_job(job, TRUE, qr, qs, nosuch).res
             flow == IF res = "ok" THEN "continue" ELSE OnSubmissionError(res)
         IN  rw' = <<[r EXCEPT !.tracked = AfterRerun(r.tracked, job, res),
                               !.to_rerun = Tail(r.to_rerun),
                               !.reran = IF res = "ok" THEN r.reran \cup {job.id}
                                         ELSE r.reran,
                               !.spc = IF flow = "raise" THEN "raised"
                                       ELSE IF flow = "break" \/ Tail(r.to_rerun) = <<>>
                                       THEN "persist" ELSE "rerun"]>>
    /\ UNCHANGED not_race

\* rerun_jobs, lines 181-199
RacePersist ==
    /\ rw[1].spc = "persist"
    /\ \E rc \in WriteRcs :
         LET r == rw[1]
             payload == tracked_json(r.tracked)
         IN  rw' = <<[r EXCEPT !.mirror = MirrorAfterWrite(r.mirror, payload, rc),
                               !.cache = CacheAfterWrite(r.cache, payload, rc),
                               !.spc = "done"]>>
    /\ UNCHANGED not_race

\* track_new_jobs, lines 61-64: read the mirror, extend with the new job
ClientRead ==
    /\ rw[1].cpc = "idle"
    /\ \E rd \in ReadOutcomes :
         LET r == rw[1]
         IN  rw' = <<[r EXCEPT !.ctracked = QueueExtend(
                                   get_tracked_from_cluster(rd, r.mirror), <<r.new>>),
                               !.misread = r.misread \/ (rd = "empty" /\ r.mirror # <<>>),
                               !.cpc = "write"]>>
    /\ UNCHANGED not_race

\* track_new_jobs, lines 65-75: write the mirror; RuntimeError on failure
ClientWrite ==
    /\ rw[1].cpc = "write"
    /\ \E rc \in WriteRcs :
         LET r == rw[1]
         IN  rw' = <<[r EXCEPT !.mirror = MirrorAfterWrite(r.mirror,
                                              tracked_json(r.ctracked), rc),
                               !.cpc = IF rc = 0 THEN "done" ELSE "raised"]>>
    /\ UNCHANGED not_race

NextRace == RaceClassify \/ RaceRerun \/ RacePersist \/ ClientRead \/ ClientWrite

SpecRace == InitRace /\ [][NextRace]_vars

BothFinished == rw[1].spc \in {"done", "raised"} /\ rw[1].cpc \in {"done", "raised"}

\* C38: when the client's track_new_jobs has returned without error and the
\* sweep has finished too (every read of the mirror having succeeded), the
\* job the client added is in the mirror or in the fallback cache, unless
\* the sweep reran it successfully
C38_NoLostUpdate ==
    rw # <<>> =>
      ((BothFinished /\ rw[1].cpc = "done" /\ ~rw[1].misread) =>
          rw[1].new.id \in Ids(rw[1].mirror) \cup CacheIds(rw[1].cache) \cup rw[1].reran)

\* both have returned, no read failed, nothing was rerun, and the client's
\* job is in neither file
C38_Witness ==
    /\ rw # <<>>
    /\ rw[1].spc = "done" /\ rw[1].cpc = "done" /\ ~rw[1].misread
    /\ rw[1].reran = {}
    /\ rw[1].cache = <<>>
    /\ rw[1].new.id \notin Ids(rw[1].mirror)

\* C39: a job the mirror listed before the calls is still listed by the
\* mirror after any of their commands, unless the sweep reran it
\* successfully (no caller untracks a job here)
C39_FailedReadKeepsJobs ==
    rw # <<>> =>
      \A id \in Ids(rw[1].first) : id \in Ids(rw[1].mirror) \cup rw[1].reran

\* the sweep alone: its read of a mirror that lists the job failed, nothing
\* was rerun, its write succeeded, and the job is gone from mirror and cache
C39_Witness ==
    /\ rw # <<>>
    /\ rw[1].first = <<KilledJob>>
    /\ rw[1].spc = "done" /\ rw[1].cpc = "idle"
    /\ rw[1].misread
    /\ rw[1].reran = {}
    /\ rw[1].mirror = <<>>
    /\ rw[1].cache = <<>>


(***************************************************************************)
(* schedtools.tracking.JobTrackingQueue as the only writer of its database: *)
(* the queue is opened once, then only its register and pop are called.     *)
(***************************************************************************)

NextTracking ==
    \/ (tq = <<>> /\ Open)
    \/ \E jobs \in Batches, mode \in OnConflict : Register(jobs, mode)
    \/ \E id \in StoreIds : Pop(id)

SpecTracking == InitStore /\ [][NextTracking]_vars

\* the entries of the in-memory list with the given id
EntriesOf(jobs, id) == {k \in 1..Len(jobs) : jobs[k].id = id}

\* C40: after any sequence of register and pop on the one queue, its
\* in-memory list has exactly one entry for every row of the jobs table and
\* no entry for an id without a row
C40_ViewAgreesWithTable ==
    tq # <<>> =>
      \A id \in StoreIds :
          Cardinality(EntriesOf(tq[1], id)) =
              (IF View(db, txn)[id] # <<>> THEN 1 ELSE 0)

\* a register with on_conflict=throw has raised on its second job after the
\* first was appended: the list holds an entry whose id has no row
C40_Witness ==
    /\ tq # <<>>
    /\ call.op = "register"
    /\ call.mode = "throw"
    /\ call.raised
    /\ \E id \in StoreIds : EntriesOf(tq[1], id) # {} /\ View(db, txn)[id] = <<>>

====
